---- MODULE Spec2Model ----
(***************************************************************************)
(* elogfetch: the exclusivity lock (utils/locking.py) and the ingestion    *)
(* pipeline of cli.py (_do_update: fetch workers, bounded queue, single    *)
(* writer thread) over an abstract store (storage/database.py).            *)
(*                                                                         *)
(* Two specifications share the module:                                    *)
(*   SpecLock  several actors using acquire_lock on one lock path          *)
(*   Spec      one update/retry command running _do_update                 *)
(***************************************************************************)
EXTENDS Integers, Sequences, FiniteSets, TLC

(* ----------------------------- bounds --------------------------------- *)
\* number of actors contending for one lock path
NumActors == 2
\* acquire/exit rounds each actor makes
MaxRounds == 2
\* experiments handed to _do_update (the list holds 1..MaxExps of them)
MaxExps == 3
\* largest queue capacity tried (config.queue_size in 1..MaxQueue)
MaxQueue == 2
\* largest pool size tried (config.parallel_jobs in 1..MaxParallel)
MaxParallel == 2
\* largest batch size tried (config.batch_commit_size in 1..MaxBatch)
MaxBatch == 2

VARIABLES
    \* ---- acquire_lock, one entry per actor ----
    apc,            \* position of the actor inside acquire_lock
    file_open,      \* lock_file is open (not yet closed)
    blocking,       \* the blocking argument of the current call
    pending,        \* exception in flight inside the generator ("none" if none)
    outcome,        \* what left the with-statement last time
    rounds,         \* completed acquire/exit rounds
    flock_holder,   \* actor whose open file description holds the flock
    \* ---- the update / retry command and _do_update ----
    cmd,            \* "update" or "retry"
    cfg,            \* config: queue_size, parallel_jobs, batch_commit_size
    incremental,    \* the incremental argument: "none", "AUTO" or "path"
    experiments,    \* the experiment list
    dir_lock,       \* holder of the flock on <db_dir>/.elogfetch.lock
    mpc,            \* position of the invoking (main) thread
    exit_code,      \* process exit status, -1 while running
    raised,         \* exception leaving _do_update ("none" if none)
    join_timed_out, \* writer.join(timeout=300) returned on timeout
    summary,        \* the "Update complete" summary, <<>> if not logged
    failed_file,    \* content written to failed_experiments.json, <<>> if none
    \* ---- fetch workers and the queue ----
    next_idx,       \* next position of the list to be handed to a worker
    wpc,            \* per worker: "idle" or "holding" (blocked in / about to put)
    whold,          \* per worker: the record it fetched
    data_queue,     \* queue.Queue(maxsize=config.queue_size)
    n_put,          \* records put by fetch workers
    n_sentinel,     \* sentinels put
    stop_event,
    \* ---- writer thread ----
    tpc,            \* position of the writer thread
    batch_count,
    success_count,
    failed_experiments,
    error_holder,
    handled,        \* experiment ids of the records dequeued and handled
    clock,          \* datetime.now() as seen by the writer
    last_fault,     \* the fault met by the record written last
    \* ---- the store (one SQLite file and the writer's connection) ----
    store_file,     \* the target file exists
    conn,           \* "none", "open" or "closed"
    journal_mode,   \* "delete" or "wal"
    rows,           \* per experiment: facets whose rows the connection sees
    durable,        \* per experiment: facets whose rows are committed
    commits,        \* conn.commit() calls issued by the drain loop and its exit
    metadata,       \* Metadata keys written
    fin_log,        \* the finalize steps taken, in order
    \* ---- components studied on their own ----
    sq,             \* one SQLite file and its connection through close()
    db,             \* the tables of one Database and its run-id cache
    job,            \* the caller of the Database: its remaining work
    lg,             \* raw log entries and their transformed output
    fd              \* a directory listing and find_latest_database's result

lockvars == <<apc, file_open, blocking, pending, outcome, rounds, flock_holder>>

cmdvars == <<cmd, cfg, incremental, experiments, dir_lock, mpc, exit_code,
             raised, join_timed_out, summary, failed_file>>

workvars == <<next_idx, wpc, whold, data_queue, n_put, n_sentinel, stop_event>>

writervars == <<tpc, batch_count, success_count, failed_experiments,
                error_holder, handled, clock, last_fault>>

storevars == <<store_file, conn, journal_mode, rows, durable, commits,
               metadata, fin_log>>

pipevars == <<cmdvars, workvars, writervars, storevars>>

\* the components studied on their own
auxvars == <<sq, db, job, lg, fd>>

vars == <<lockvars, pipevars, auxvars>>

(* ------------------------- acquire_lock ------------------------------- *)
Actors == 1..NumActors
NoActor == 0
\* exceptions a with-body may raise
BodyExceptions == {"ValueError", "KeyError"}

\* fcntl.flock(lock_file, LOCK_EX [| LOCK_NB]): granted iff no other open
\* file description holds the lock
FlockGrantedAlways(holder, a) == TRUE
FlockGranted(holder, a) == holder = NoActor

\* fcntl.flock(lock_file, LOCK_UN) inside "try ... except Exception: pass":
\* on a closed file it raises ValueError (swallowed) and changes nothing;
\* on an open file it drops the lock only if this description holds it
FlockUnlockAnyone(holder, a, isopen) == NoActor
FlockUnlock(holder, a, isopen) ==
    IF isopen /\ holder = a THEN NoActor ELSE holder

\* lock_file.close(): closing the description drops a lock it still holds
FileClose(holder, a) == IF holder = a THEN NoActor ELSE holder

\* the finally block of acquire_lock: unlock, then close; exc is the
\* exception in flight (it does not influence the release)
ReleaseUnlessRaised(holder, a, isopen, exc) ==
    IF exc = "none" THEN FileClose(FlockUnlock(holder, a, isopen), a) ELSE holder
ReleaseOnExit(holder, a, isopen, exc) ==
    FileClose(FlockUnlock(holder, a, isopen), a)

(* ------------------- the command and its configuration ---------------- *)
\* the two processes that may hold the directory lock
CmdProc == 1
OtherProc == 2

ExpIds == 1..MaxExps
WorkerIds == 1..MaxParallel

\* the facets of a composite record, in the order insert_experiment_batch
\* writes them
InsertOrder ==
    <<"info", "logbook", "runtable", "file_manager", "questionnaire", "workflow">>
AllFacets == {InsertOrder[i] : i \in 1..Len(InsertOrder)}

\* records travelling through the queue
NoRecord == [kind |-> "nothing", experiment_id |-> 0, error |-> "", facets |-> {}]
Sentinel == [kind |-> "sentinel", experiment_id |-> 0, error |-> "", facets |-> {}]
DataRecord(e, f) == [kind |-> "data", experiment_id |-> e, error |-> "", facets |-> f]
ErrorRecord(e, msg) == [kind |-> "error", experiment_id |-> e, error |-> msg, facets |-> {}]

\* a write that met no fault
NoFault == [at |-> "none", step |-> 0]

NoRows == [e \in ExpIds |-> {}]
\* a base snapshot that already holds every experiment
BaseRows == [e \in ExpIds |-> AllFacets]

PipeOff ==
    /\ cmd = "update"
    /\ cfg = [queue_size |-> 1, parallel_jobs |-> 1, batch_commit_size |-> 1]
    /\ incremental = "none"
    /\ experiments = <<>>
    /\ dir_lock = NoActor
    /\ mpc = "off"
    /\ exit_code = -1
    /\ raised = "none"
    /\ join_timed_out = FALSE
    /\ summary = <<>>
    /\ failed_file = <<>>
    /\ next_idx = 1
    /\ wpc = [w \in WorkerIds |-> "idle"]
    /\ whold = [w \in WorkerIds |-> NoRecord]
    /\ data_queue = <<>>
    /\ n_put = 0
    /\ n_sentinel = 0
    /\ stop_event = FALSE
    /\ tpc = "not_started"
    /\ batch_count = 0
    /\ success_count = 0
    /\ failed_experiments = <<>>
    /\ error_holder = <<>>
    /\ handled = {}
    /\ clock = 0
    /\ last_fault = NoFault
    /\ store_file = FALSE
    /\ conn = "none"
    /\ journal_mode = "delete"
    /\ rows = NoRows
    /\ durable = NoRows
    /\ commits = 0
    /\ metadata = {}
    /\ fin_log = <<>>

LockOff ==
    /\ apc = [a \in Actors |-> "idle"]
    /\ file_open = [a \in Actors |-> FALSE]
    /\ blocking = [a \in Actors |-> FALSE]
    /\ pending = [a \in Actors |-> "none"]
    /\ outcome = [a \in Actors |-> "none"]
    /\ rounds = [a \in Actors |-> 0]
    /\ flock_holder = NoActor

\* the components studied on their own are not in use
AuxOff ==
    /\ sq = <<>>
    /\ db = <<>>
    /\ job = <<>>
    /\ lg = <<>>
    /\ fd = <<>>

InitLock ==
    /\ LockOff
    /\ PipeOff
    /\ AuxOff

\* line 30: lock_file = open(lock_path, "w")
LockOpen(a) ==
    /\ apc[a] = "idle"
    /\ rounds[a] < MaxRounds
    /\ \E b \in BOOLEAN : blocking' = [blocking EXCEPT ![a] = b]
    /\ apc' = [apc EXCEPT ![a] = "opened"]
    /\ file_open' = [file_open EXCEPT ![a] = TRUE]
    /\ pending' = [pending EXCEPT ![a] = "none"]
    /\ UNCHANGED <<outcome, rounds, flock_holder, pipevars, auxvars>>

\* lines 32-37 and 44: flock granted, the generator yields lock_file
LockGranted(a) ==
    /\ apc[a] = "opened"
    /\ FlockGranted(flock_holder, a)
    /\ flock_holder' = a
    /\ apc' = [apc EXCEPT ![a] = "in_scope"]
    /\ UNCHANGED <<file_open, blocking, pending, outcome, rounds, pipevars, auxvars>>

\* lines 38-42: LOCK_NB and the lock is held elsewhere: BlockingIOError,
\* the file is closed and LockError raised (a blocking call waits instead)
LockRefused(a) ==
    /\ apc[a] = "opened"
    /\ ~FlockGranted(flock_holder, a)
    /\ ~blocking[a]
    /\ flock_holder' = FileClose(flock_holder, a)
    /\ file_open' = [file_open EXCEPT ![a] = FALSE]
    /\ pending' = [pending EXCEPT ![a] = "LockError"]
    /\ apc' = [apc EXCEPT ![a] = "finally"]
    /\ UNCHANGED <<blocking, outcome, rounds, pipevars, auxvars>>

\* the body of the with-statement ends, normally or by raising
LockBody(a) ==
    /\ apc[a] = "in_scope"
    /\ \E e \in {"none"} \cup BodyExceptions :
          pending' = [pending EXCEPT ![a] = e]
    /\ apc' = [apc EXCEPT ![a] = "finally"]
    /\ UNCHANGED <<file_open, blocking, outcome, rounds, flock_holder, pipevars, auxvars>>

\* lines 46-51: finally: unlock (errors swallowed), close; the exception in
\* flight, if any, leaves the with-statement
LockFinally(a) ==
    /\ apc[a] = "finally"
    /\ flock_holder' = ReleaseOnExit(flock_holder, a, file_open[a], pending[a])
    /\ file_open' = [file_open EXCEPT ![a] = FALSE]
    /\ outcome' = [outcome EXCEPT ![a] = pending[a]]
    /\ pending' = [pending EXCEPT ![a] = "none"]
    /\ apc' = [apc EXCEPT ![a] = "idle"]
    /\ rounds' = [rounds EXCEPT ![a] = @ + 1]
    /\ UNCHANGED <<blocking, pipevars, auxvars>>

NextLock ==
    \E a \in Actors :
        \/ LockOpen(a)
        \/ LockGranted(a)
        \/ LockRefused(a)
        \/ LockBody(a)
        \/ LockFinally(a)

SpecLock == InitLock /\ [][NextLock]_vars

(* ===================== update / retry and _do_update ================== *)
\* largest step of a delete or insert at which a write fault is injected
MaxFailStep == 2

Truthy(inc) == inc # "none"

\* config.parallel_jobs > 1 selects the pool, anything else the invoking
\* thread alone: the number of threads that run fetch_and_queue
NumWorkers(c) == IF c.parallel_jobs > 1 THEN c.parallel_jobs ELSE 1
Workers == 1..NumWorkers(cfg)

\* queue.Queue(maxsize).put: room iff maxsize <= 0 or fewer than maxsize items
CanPutUnbounded(q, maxsize) == TRUE
CanPut(q, maxsize) == maxsize <= 0 \/ Len(q) < maxsize

\* exceptions the six per-endpoint fetch calls may raise: one of the
\* library's own (a FetchElogError) and a foreign one
FetchExceptions == {"AuthenticationError", "KeyError"}

\* cli.py 270: "except Exception" catches whatever a fetch call raised
FetchCaughtOwnOnly(exc) == exc = "AuthenticationError"
FetchCaught(exc) == TRUE

\* the state in which update (cli.py 127) or retry (525) reaches its
\* acquire_lock: cfg holds the three settings _do_update reads from its
\* config argument (180, 225, 278); retry always passes incremental="AUTO"
\* (529), update passes None or an explicit base path (131), so that the
\* three modes of _do_update (162-175) are all run; the directory lock is
\* free or held by another process
Init ==
    /\ LockOff
    /\ AuxOff
    /\ cmd \in {"update", "retry"}
    /\ cfg \in [queue_size : 1..MaxQueue, parallel_jobs : 1..MaxParallel,
                batch_commit_size : 1..MaxBatch]
    /\ incremental \in (IF cmd = "retry" THEN {"AUTO"} ELSE {"none", "path"})
    /\ experiments \in {[i \in 1..n |-> i] : n \in 1..MaxExps}
    /\ dir_lock \in {NoActor, OtherProc}
    /\ mpc = "acquire"
    /\ exit_code = -1
    /\ raised = "none"
    /\ join_timed_out = FALSE
    /\ summary = <<>>
    /\ failed_file = <<>>
    /\ next_idx = 1
    /\ wpc = [w \in WorkerIds |-> "idle"]
    /\ whold = [w \in WorkerIds |-> NoRecord]
    /\ data_queue = <<>>
    /\ n_put = 0
    /\ n_sentinel = 0
    /\ stop_event = FALSE
    /\ tpc = "not_started"
    /\ batch_count = 0
    /\ success_count = 0
    /\ failed_experiments = <<>>
    /\ error_holder = <<>>
    /\ handled = {}
    /\ clock = 0
    /\ last_fault = NoFault
    /\ store_file = FALSE
    /\ conn = "none"
    /\ journal_mode = "delete"
    /\ rows = NoRows
    /\ durable = NoRows
    /\ commits = 0
    /\ metadata = {}
    /\ fin_log = <<>>

\* another process that held the directory lock leaves its scope
OtherRelease ==
    /\ dir_lock = OtherProc
    /\ dir_lock' = ReleaseOnExit(dir_lock, OtherProc, TRUE, "none")
    /\ UNCHANGED <<lockvars, auxvars, cmd, cfg, incremental, experiments, mpc, exit_code,
                   raised, join_timed_out, summary, failed_file,
                   workvars, writervars, storevars>>

\* cli.py 127-131 / 525-529: with acquire_lock(lock_path): lock granted
CmdAcquire ==
    /\ mpc = "acquire"
    /\ FlockGranted(dir_lock, CmdProc)
    /\ dir_lock' = CmdProc
    /\ mpc' = "prepare"
    /\ UNCHANGED <<lockvars, auxvars, cmd, cfg, incremental, experiments, exit_code,
                   raised, join_timed_out, summary, failed_file,
                   workvars, writervars, storevars>>

\* cli.py 132-134 / 530-532: LockError: logged, sys.exit(1)
CmdLockError ==
    /\ mpc = "acquire"
    /\ ~FlockGranted(dir_lock, CmdProc)
    /\ dir_lock' = ReleaseOnExit(FileClose(dir_lock, CmdProc), CmdProc, FALSE,
                                 "LockError")
    /\ exit_code' = 1
    /\ mpc' = "lock_refused"
    /\ UNCHANGED <<lockvars, auxvars, cmd, cfg, incremental, experiments,
                   raised, join_timed_out, summary, failed_file,
                   workvars, writervars, storevars>>

\* cli.py 130-142 / 528-540: the with-statement is left and the lock
\* released; an exception exc ends the command with a non-zero status
LeaveCommand(exc) ==
    /\ dir_lock' = ReleaseOnExit(dir_lock, CmdProc, TRUE, exc)
    /\ exit_code' = IF exc = "none" THEN 0 ELSE 1
    /\ raised' = exc
    /\ mpc' = "exited"

\* cli.py 159-177 and 254-256: choose the base, copy it to the new path,
\* start the writer thread; an explicit base path that does not exist
\* raises FetchElogError, which ends the command
MainPrepare ==
    /\ mpc = "prepare"
    /\ \E base_exists \in BOOLEAN :
        IF incremental = "path" /\ ~base_exists
        THEN /\ LeaveCommand("FetchElogError")
             /\ UNCHANGED <<tpc, store_file, rows, durable>>
        ELSE /\ IF Truthy(incremental) /\ base_exists
                THEN /\ store_file' = TRUE
                     /\ rows' = BaseRows
                     /\ durable' = BaseRows
                ELSE UNCHANGED <<store_file, rows, durable>>
             /\ tpc' = "open"
             /\ mpc' = "pool"
             /\ UNCHANGED <<dir_lock, exit_code, raised>>
    /\ UNCHANGED <<lockvars, auxvars, cmd, cfg, incremental, experiments,
                   join_timed_out, summary, failed_file, workvars,
                   batch_count, success_count, failed_experiments, error_holder,
                   handled, clock, last_fault, conn, journal_mode, commits,
                   metadata, fin_log>>

\* cli.py 258-272: a free worker takes the next experiment of the list and
\* fetches it: the composite record, or the error result when one of the
\* six fetch calls raised
WorkerFetch(w) ==
    /\ mpc = "pool"
    /\ w \in Workers
    /\ wpc[w] = "idle"
    /\ next_idx <= Len(experiments)
    /\ LET e == experiments[next_idx] IN
        \/ /\ whold' = [whold EXCEPT ![w] = DataRecord(e, AllFacets)]
           /\ wpc' = [wpc EXCEPT ![w] = "holding"]
        \/ \E exc \in FetchExceptions :
              /\ whold' = [whold EXCEPT ![w] = ErrorRecord(e, exc)]
              /\ wpc' = [wpc EXCEPT ![w] =
                            IF FetchCaught(exc) THEN "holding" ELSE "raised"]
    /\ next_idx' = next_idx + 1
    /\ UNCHANGED <<lockvars, auxvars, cmdvars, data_queue, n_put, n_sentinel, stop_event,
                   writervars, storevars>>

\* cli.py 274-275: data_queue.put(data), blocking while the queue is full
WorkerPut(w) ==
    /\ w \in Workers
    /\ wpc[w] = "holding"
    /\ CanPut(data_queue, cfg.queue_size)
    /\ data_queue' = Append(data_queue, whold[w])
    /\ whold' = [whold EXCEPT ![w] = NoRecord]
    /\ wpc' = [wpc EXCEPT ![w] = "idle"]
    /\ n_put' = n_put + 1
    /\ UNCHANGED <<lockvars, auxvars, cmdvars, next_idx, n_sentinel, stop_event,
                   writervars, storevars>>

\* cli.py 278-295: the pool (or the sequential loop) has run every
\* experiment and stop_event is set; an exception that left
\* fetch_and_queue is raised instead (future.result(), or the call itself
\* when sequential) and ends the command
MainPoolDone ==
    /\ mpc = "pool"
    /\ \A w \in Workers : wpc[w] # "holding"
    /\ IF \E w \in Workers : wpc[w] = "raised"
       THEN /\ LeaveCommand(whold[CHOOSE w \in Workers : wpc[w] = "raised"].error)
            /\ UNCHANGED stop_event
       ELSE /\ next_idx > Len(experiments)
            /\ stop_event' = TRUE
            /\ mpc' = "put_sentinel"
            /\ UNCHANGED <<dir_lock, exit_code, raised>>
    /\ UNCHANGED <<lockvars, auxvars, cmd, cfg, incremental, experiments,
                   join_timed_out, summary, failed_file,
                   next_idx, wpc, whold, data_queue, n_put, n_sentinel,
                   writervars, storevars>>

\* cli.py 296: data_queue.put(None), blocking while the queue is full
MainPutSentinel ==
    /\ mpc = "put_sentinel"
    /\ CanPut(data_queue, cfg.queue_size)
    /\ data_queue' = Append(data_queue, Sentinel)
    /\ n_sentinel' = n_sentinel + 1
    /\ mpc' = "join"
    /\ UNCHANGED <<lockvars, auxvars, cmd, cfg, incremental, experiments, dir_lock,
                   exit_code, raised, join_timed_out, summary, failed_file,
                   next_idx, wpc, whold, n_put, stop_event,
                   writervars, storevars>>

\* the writer thread is no longer alive
WriterEnded == {"terminated", "open_failed", "finalize_failed"}

\* cli.py 299-313: after the join: re-raise the writer's first error, or
\* log the summary, write the failure list if it is not empty, and return
AfterJoin ==
    IF error_holder # <<>>
    THEN /\ LeaveCommand(error_holder[1])
         /\ UNCHANGED <<summary, failed_file>>
    ELSE /\ summary' = <<[succeeded |-> success_count,
                          failed |-> Len(failed_experiments)]>>
         /\ failed_file' = IF failed_experiments # <<>>
                           THEN failed_experiments ELSE failed_file
         /\ LeaveCommand("none")

\* cli.py 297-313: writer.join(timeout=300) returns because the thread
\* ended; the rest of _do_update follows
MainJoin ==
    /\ mpc = "join"
    /\ tpc \in WriterEnded
    /\ AfterJoin
    /\ UNCHANGED <<lockvars, auxvars, cmd, cfg, incremental, experiments,
                   join_timed_out, workvars, writervars, storevars>>

\* cli.py 297-313: writer.join(timeout=300) returns because 300 s have
\* passed while the writer is still running; the rest of _do_update follows
MainJoinTimeout ==
    /\ mpc = "join"
    /\ tpc \notin WriterEnded
    /\ join_timed_out' = TRUE
    /\ AfterJoin
    /\ UNCHANGED <<lockvars, auxvars, cmd, cfg, incremental, experiments,
                   workvars, writervars, storevars>>

(* --------------------------- the store -------------------------------- *)
\* the order in which delete_experiment removes an experiment's rows
\* (RunDetector/RunProductionData, Logbook, Run, Questionnaire, Workflow,
\* Experiment), by the facet that wrote them
DeleteOrder ==
    <<"file_manager", "logbook", "runtable", "questionnaire", "workflow", "info">>

\* database.py 610-632: the first k delete steps for experiment e
DeleteUpTo(r, e, k) ==
    [r EXCEPT ![e] = @ \ {DeleteOrder[i] : i \in 1..k}]
DeleteEverything(r, e) == [x \in DOMAIN r |-> {}]
DeleteExperiment(r, e) == DeleteUpTo(r, e, Len(DeleteOrder))

\* database.py 568-579: the first k steps of insert_experiment_batch; a
\* facet the record lacks is skipped
InsertUpTo(r, data, k) ==
    [r EXCEPT ![data.experiment_id] =
        @ \cup ({InsertOrder[i] : i \in 1..k} \cap data.facets)]
InsertExperimentBatch(r, data) == InsertUpTo(r, data, Len(InsertOrder))

\* where the write of one record may raise: in delete_experiment (before
\* its commit), at an insert of a facet the record carries, or in the batch
\* commit when one is due
WriteFaults(data, inc, bc, B) ==
    {NoFault}
    \cup (IF inc THEN {[at |-> "delete", step |-> k] : k \in 1..MaxFailStep} ELSE {})
    \cup {[at |-> "insert", step |-> k] :
            k \in {j \in 1..MaxFailStep : InsertOrder[j] \in data.facets}}
    \cup (IF bc + 1 >= B THEN {[at |-> "commit", step |-> 0]} ELSE {})

\* cli.py 218-227 with database.py 610-634 and 558-579: the store after the
\* writer's try block for one record under fault f
RowsAfterDelete(r, data, inc, f) ==
    IF ~inc THEN r
    ELSE IF f.at = "delete" THEN DeleteUpTo(r, data.experiment_id, f.step - 1)
    ELSE DeleteExperiment(r, data.experiment_id)

RowsAfterWrite(r, data, inc, f) ==
    LET d == RowsAfterDelete(r, data, inc, f) IN
    CASE f.at = "delete" -> d
      [] f.at = "insert" -> InsertUpTo(d, data, f.step - 1)
      [] OTHER -> InsertExperimentBatch(d, data)

\* delete_experiment ran to its conn.commit() (database.py 634)
DeleteCommits(inc, f) == inc /\ f.at # "delete"

\* cli.py 223-227: the batch counter after the record, and whether the
\* batch commit is issued
Inserted(f) == f.at \in {"none", "commit"}
BatchAfterInsert(bc, f) == IF Inserted(f) THEN bc + 1 ELSE bc
CommitDue(bc, f, B) == Inserted(f) /\ BatchAfterInsert(bc, f) >= B

\* the entry appended to failed_experiments (cli.py 210-214, 235-239)
FailedEntry(e, msg, now) == [experiment_id |-> e, error |-> msg, timestamp |-> now]

\* database.py 648-662: the steps of close() when the checkpoint (ck) and
\* the journal-mode switch (jm) succeed or raise; the connection is closed
\* in every case
CloseSteps(ck, jm) ==
    (IF ck THEN <<"checkpoint">> \o (IF jm THEN <<"journal_delete">> ELSE <<>>)
     ELSE <<>>) \o <<"close">>

(* ------------------------- the writer thread -------------------------- *)
\* cli.py 255: the writer is a daemon thread: it runs only until the
\* command's process exits
ProcessAlive == mpc \notin {"exited", "lock_refused"}

\* cli.py 190-192: Database(db_path) and enable_wal_mode(), outside the try:
\* an exception here ends the thread
WriterOpen ==
    /\ tpc = "open"
    /\ ProcessAlive
    /\ \E res \in {"ok", "connect_fails", "wal_fails"} :
        CASE res = "ok" ->
                /\ conn' = "open" /\ store_file' = TRUE /\ journal_mode' = "wal"
                /\ tpc' = "get"
          [] res = "connect_fails" ->
                /\ tpc' = "open_failed"
                /\ UNCHANGED <<conn, store_file, journal_mode>>
          [] OTHER ->
                /\ conn' = "open" /\ store_file' = TRUE
                /\ tpc' = "open_failed"
                /\ UNCHANGED journal_mode
    /\ UNCHANGED <<lockvars, auxvars, cmdvars, workvars, batch_count, success_count,
                   failed_experiments, error_holder, handled, clock, last_fault,
                   rows, durable, commits, metadata, fin_log>>

\* cli.py 197, 203-204: the sentinel is dequeued, the loop is left
WriterGetSentinel ==
    /\ tpc = "get"
    /\ ProcessAlive
    /\ data_queue # <<>>
    /\ Head(data_queue) = Sentinel
    /\ data_queue' = Tail(data_queue)
    /\ tpc' = "final_commit"
    /\ UNCHANGED <<lockvars, auxvars, cmdvars, next_idx, wpc, whold, n_put, n_sentinel,
                   stop_event, batch_count, success_count, failed_experiments,
                   error_holder, handled, clock, last_fault, storevars>>

\* cli.py 197, 206-216: an error result is dequeued and recorded
WriterHandleError ==
    /\ tpc = "get"
    /\ ProcessAlive
    /\ data_queue # <<>>
    /\ Head(data_queue).kind = "error"
    /\ LET data == Head(data_queue) IN
        /\ failed_experiments' = Append(failed_experiments,
              FailedEntry(data.experiment_id, data.error, clock))
        /\ handled' = handled \cup {data.experiment_id}
    /\ clock' = clock + 1
    /\ data_queue' = Tail(data_queue)
    /\ UNCHANGED <<lockvars, auxvars, cmdvars, next_idx, wpc, whold, n_put, n_sentinel,
                   stop_event, tpc, batch_count, success_count, error_holder,
                   last_fault, storevars>>

\* cli.py 197, 206, 218-241: a composite record is dequeued and written
WriterHandleData ==
    /\ tpc = "get"
    /\ ProcessAlive
    /\ data_queue # <<>>
    /\ Head(data_queue).kind = "data"
    /\ LET data == Head(data_queue)
           inc  == Truthy(incremental)
           B    == cfg.batch_commit_size
       IN \E f \in WriteFaults(data, inc, batch_count, B) :
           LET after    == RowsAfterWrite(rows, data, inc, f)
               due      == CommitDue(batch_count, f, B)
               commitOk == due /\ f.at = "none"
           IN /\ rows' = after
              /\ durable' = IF commitOk THEN after
                            ELSE IF DeleteCommits(inc, f)
                                 THEN RowsAfterDelete(rows, data, inc, f)
                                 ELSE durable
              /\ commits' = commits + (IF DeleteCommits(inc, f) THEN 1 ELSE 0)
                                    + (IF due THEN 1 ELSE 0)
              /\ batch_count' = IF commitOk THEN 0
                                ELSE BatchAfterInsert(batch_count, f)
              /\ IF f.at = "none"
                 THEN /\ success_count' = success_count + 1
                      /\ UNCHANGED <<failed_experiments, clock>>
                 ELSE /\ failed_experiments' = Append(failed_experiments,
                            FailedEntry(data.experiment_id, "write_error", clock))
                      /\ clock' = clock + 1
                      /\ UNCHANGED success_count
              /\ handled' = handled \cup {data.experiment_id}
              /\ last_fault' = f
    /\ data_queue' = Tail(data_queue)
    /\ UNCHANGED <<lockvars, auxvars, cmdvars, next_idx, wpc, whold, n_put, n_sentinel,
                   stop_event, tpc, error_holder, store_file, conn,
                   journal_mode, metadata, fin_log>>

\* cli.py 197-198: get(timeout=0.5) finds the queue empty for the whole
\* wait and raises queue.Empty
WriterGetTimeout ==
    /\ tpc = "get"
    /\ ProcessAlive
    /\ data_queue = <<>>
    /\ tpc' = "check_stop"
    /\ UNCHANGED <<lockvars, auxvars, cmdvars, workvars, batch_count, success_count,
                   failed_experiments, error_holder, handled, clock, last_fault, storevars>>

\* cli.py 199-201: after queue.Empty: leave the loop if the stop flag is
\* set, poll again otherwise
StopLeavesLoop(stop, q) == stop
WriterCheckStop ==
    /\ tpc = "check_stop"
    /\ ProcessAlive
    /\ tpc' = IF StopLeavesLoop(stop_event, data_queue) THEN "final_commit" ELSE "get"
    /\ UNCHANGED <<lockvars, auxvars, cmdvars, workvars, batch_count, success_count,
                   failed_experiments, error_holder, handled, clock, last_fault, storevars>>

\* cli.py 243-248: commit the partial batch; an exception is stored in
\* error_holder
WriterFinalCommit ==
    /\ tpc = "final_commit"
    /\ ProcessAlive
    /\ IF batch_count > 0
       THEN \E ok \in BOOLEAN :
              /\ commits' = commits + 1
              /\ durable' = IF ok THEN rows ELSE durable
              /\ error_holder' = IF ok THEN error_holder
                                 ELSE Append(error_holder, "commit_error")
       ELSE UNCHANGED <<commits, durable, error_holder>>
    /\ tpc' = "finally"
    /\ UNCHANGED <<lockvars, auxvars, cmdvars, workvars, batch_count, success_count,
                   failed_experiments, handled, clock, last_fault, store_file, conn,
                   journal_mode, rows, metadata, fin_log>>

\* cli.py 249-252 with database.py 581-584 and 648-662: finally: the two
\* set_metadata calls (each commits), then db.close(); an exception in
\* set_metadata ends the thread before the calls that follow it
WriterFinally ==
    /\ tpc = "finally"
    /\ ProcessAlive
    /\ \/ \E ck, jm \in BOOLEAN :
             /\ metadata' = metadata \cup {"last_update", "hours_lookback"}
             /\ durable' = rows
             /\ fin_log' = fin_log \o <<"last_update", "hours_lookback">>
                                   \o CloseSteps(ck, jm)
             /\ journal_mode' = IF ck /\ jm THEN "delete" ELSE journal_mode
             /\ conn' = "closed"
             /\ tpc' = "terminated"
       \/ \E done \in 0..1 :
             /\ metadata' = IF done = 1 THEN metadata \cup {"last_update"}
                             ELSE metadata
             /\ durable' = IF done = 1 THEN rows ELSE durable
             /\ fin_log' = IF done = 1 THEN fin_log \o <<"last_update">>
                            ELSE fin_log
             /\ tpc' = "finalize_failed"
             /\ UNCHANGED <<journal_mode, conn>>
    /\ UNCHANGED <<lockvars, auxvars, cmdvars, workvars, batch_count, success_count,
                   failed_experiments, error_holder, handled, clock, last_fault,
                   store_file, rows, commits>>

Next ==
    \/ OtherRelease
    \/ CmdAcquire
    \/ CmdLockError
    \/ MainPrepare
    \/ \E w \in WorkerIds : WorkerFetch(w)
    \/ \E w \in WorkerIds : WorkerPut(w)
    \/ MainPoolDone
    \/ MainPutSentinel
    \/ MainJoin
    \/ MainJoinTimeout
    \/ WriterOpen
    \/ WriterGetSentinel
    \/ WriterHandleError
    \/ WriterHandleData
    \/ WriterGetTimeout
    \/ WriterCheckStop
    \/ WriterFinalCommit
    \/ WriterFinally

Spec == Init /\ [][Next]_vars

(* ------------------------ claims on the lock -------------------------- *)
InScope == {a \in Actors : apc[a] = "in_scope"}

\* C1: with non-blocking attempts by several actors on one lock path, at
\* most one actor is inside the locked scope at any time; an attempt made
\* while another actor holds the lock does not wait but fails with
\* LockError, and neither the failed attempt nor its cleanup disturbs the
\* holder's lock, so further attempts fail until the holder exits.
C1_MutualExclusion ==
    /\ [](Cardinality(InScope) <= 1)
    /\ [](\A a \in Actors :
            (apc[a] = "opened" /\ ~blocking[a] /\ flock_holder # NoActor)
                => ENABLED LockRefused(a))
    /\ [][\A a \in Actors :
            (apc[a] = "opened" /\ ~blocking[a] /\ flock_holder # NoActor
                /\ apc'[a] # "opened")
                => (pending'[a] = "LockError" /\ apc'[a] = "finally"
                    /\ flock_holder' = flock_holder)]_vars
    /\ [][\A a \in Actors :
            (apc[a] = "finally" /\ pending[a] = "LockError" /\ apc'[a] = "idle")
                => (outcome'[a] = "LockError" /\ flock_holder' = flock_holder)]_vars
    /\ [](\A a \in InScope : flock_holder = a)

\* a second attempt has failed and been cleaned up while the first holder
\* is still inside its scope
C1_Witness ==
    \E a, b \in Actors :
        /\ a # b
        /\ apc[a] = "in_scope" /\ flock_holder = a
        /\ apc[b] = "idle" /\ outcome[b] = "LockError" /\ rounds[b] = MaxRounds

\* C2: whenever the scope of a successful acquire_lock exits, normally or
\* because the body raised, the lock is released: the body's exception
\* leaves the with-statement unchanged, the lock is free whenever no actor
\* is between grant and exit, and an attempt on a free lock is granted, in
\* every round.
C2_ReleasedOnExit ==
    /\ [][\A a \in Actors :
            (apc[a] = "finally" /\ apc'[a] = "idle")
                => (outcome'[a] = pending[a] /\ flock_holder' # a
                    /\ ~file_open'[a])]_vars
    /\ [](flock_holder # NoActor => apc[flock_holder] \in {"in_scope", "finally"})
    /\ [](\A a \in Actors :
            (apc[a] = "opened" /\ flock_holder = NoActor) => ENABLED LockGranted(a))
    /\ [][\A a \in Actors :
            (apc[a] = "opened" /\ flock_holder = NoActor /\ apc'[a] # "opened")
                => (apc'[a] = "in_scope" /\ flock_holder' = a)]_vars

\* an actor whose previous scope ended by an exception of the body holds
\* the lock again in a later round
C2_Witness ==
    \E a \in Actors :
        /\ rounds[a] >= 1
        /\ outcome[a] \in BodyExceptions
        /\ apc[a] = "in_scope" /\ flock_holder = a

(* --------------------- claims on update / retry ----------------------- *)
\* C3: when the update or retry command cannot acquire the directory lock
\* (another process holds it), the attempt ends in the LockError branch and
\* nothing else: _do_update is not entered, no worker has fetched or queued
\* anything, the writer was never started, no store file exists or holds
\* rows, no summary and no failure list were written, the exit status is
\* non-zero, and nothing of this changes afterwards.
C3_NoIngestionWithoutLock ==
    /\ [](mpc = "lock_refused" =>
            /\ exit_code = 1
            /\ raised = "none"
            /\ next_idx = 1 /\ n_put = 0 /\ n_sentinel = 0 /\ data_queue = <<>>
            /\ \A w \in WorkerIds : wpc[w] = "idle"
            /\ tpc = "not_started"
            /\ ~store_file /\ conn = "none"
            /\ rows = NoRows /\ durable = NoRows /\ commits = 0 /\ metadata = {}
            /\ summary = <<>> /\ failed_file = <<>>)
    /\ []((mpc = "acquire" /\ dir_lock = OtherProc) => ENABLED CmdLockError)
    /\ [][(mpc = "acquire" /\ dir_lock = OtherProc /\ mpc' # "acquire")
            => (mpc' = "lock_refused" /\ dir_lock' = OtherProc)]_vars
    /\ [][mpc = "lock_refused"
            => UNCHANGED <<mpc, exit_code, workvars, writervars, storevars,
                           summary, failed_file>>]_vars

\* the command has ended in the LockError branch while the other process
\* still holds the directory lock
C3_Witness ==
    /\ mpc = "lock_refused"
    /\ dir_lock = OtherProc
    /\ exit_code = 1

\* experiments fetched so far, and where their records are
Fetched == {experiments[i] : i \in 1..(next_idx - 1)}
HeldIds == {whold[w].experiment_id : w \in {x \in WorkerIds : wpc[x] = "holding"}}
QueuedIds ==
    {data_queue[i].experiment_id :
        i \in {j \in 1..Len(data_queue) : data_queue[j] # Sentinel}}
WriterLeftLoop == tpc \in {"final_commit", "finally", "terminated", "finalize_failed"}

\* C4: exactly one sentinel is put, and only after every fetch worker has
\* completed its put; and the writer leaves its drain loop only after every
\* record put by a fetch worker has been dequeued and handled, so that no
\* record is left in the queue when the writer exits.
C4_DrainedBeforeExit ==
    /\ n_sentinel <= 1
    /\ (n_sentinel = 1 =>
            /\ n_put = Len(experiments)
            /\ \A w \in WorkerIds : wpc[w] = "idle")
    /\ (mpc = "join" => n_sentinel = 1)
    /\ (WriterLeftLoop =>
            /\ \A i \in 1..Len(experiments) : experiments[i] \in handled
            /\ QueuedIds = {})

\* records fetched and not yet dequeued by the writer
InFlight == (next_idx - 1) - Cardinality(handled)

\* C5: the queue never holds more than C items, the records fetched but not
\* yet dequeued are the queued ones plus those held by workers waiting in
\* put, and there are never more than C + P of them: no worker fetches a
\* further experiment beyond that bound.
C5_Backpressure ==
    /\ Len(data_queue) <= cfg.queue_size
    /\ Cardinality({w \in WorkerIds : wpc[w] # "idle"}) <= NumWorkers(cfg)
    /\ InFlight = Cardinality(QueuedIds) + Cardinality(HeldIds)
    /\ InFlight <= cfg.queue_size + NumWorkers(cfg)

\* the writer has not dequeued anything, the queue is full, every worker
\* waits in put, C + P records are in flight and an experiment of the list
\* remains that no worker can start
C5_Witness ==
    /\ tpc = "open"
    /\ Len(data_queue) = cfg.queue_size
    /\ \A w \in Workers : wpc[w] = "holding"
    /\ InFlight = cfg.queue_size + NumWorkers(cfg)
    /\ next_idx <= Len(experiments)
    /\ \A w \in WorkerIds : ~ENABLED WorkerFetch(w)
    /\ \A w \in WorkerIds : ~ENABLED WorkerPut(w)

\* the writer takes the record at the head of the queue in this step
Dequeues(kind) ==
    /\ tpc = "get"
    /\ data_queue # <<>>
    /\ Head(data_queue).kind = kind
    /\ data_queue' = Tail(data_queue)

C7_WriteFailureIsolated ==
    /\ [][(Dequeues("data") /\ last_fault'.at \in {"delete", "insert"}) =>
            LET e == Head(data_queue).experiment_id IN
            /\ failed_experiments' = Append(failed_experiments,
                  [experiment_id |-> e, error |-> "write_error",
                   timestamp |-> clock])
            /\ success_count' = success_count
            /\ tpc' = "get"
            /\ \A x \in ExpIds \ {e} :
                  /\ rows'[x] = rows[x]
                  /\ durable'[x] \in {durable[x], rows[x]}]_vars
    /\ []((tpc = "get" /\ data_queue # <<>> /\ ProcessAlive) =>
            ENABLED (WriterHandleData \/ WriterHandleError \/ WriterGetSentinel))

\* in incremental mode the insert of the first record raised and the later
\* records were written; the run ended with every other experiment's rows
\* complete
C7_Witness ==
    /\ Truthy(incremental)
    /\ Len(experiments) = MaxExps
    /\ failed_experiments = <<[experiment_id |-> 1, error |-> "write_error",
                               timestamp |-> 0]>>
    /\ rows[1] # AllFacets
    /\ success_count = MaxExps - 1
    /\ \A e \in 2..MaxExps : rows[e] = AllFacets /\ durable[e] = AllFacets
    /\ tpc = "terminated"

CeilDiv(n, b) == (n + b - 1) \div b

\* C8: in a run in which every record the writer took was written without
\* error, the commits issued by the drain loop and on its exit number
\* exactly ceil(N / B) for the N successes, in fresh and in incremental
\* mode.
C8_CommitCount ==
    (/\ WriterLeftLoop
     /\ tpc # "final_commit"
     /\ failed_experiments = <<>>
     /\ error_holder = <<>>)
        => commits = CeilDiv(success_count, cfg.batch_commit_size)

\* C9: whenever the writer thread has ended, by whatever path, the Metadata
\* keys last_update and hours_lookback are written and the store is closed,
\* the steps having run in the order metadata write, checkpoint, journal
\* mode DELETE, close.
C9_FinalizedOnEveryPath ==
    tpc \in WriterEnded =>
        /\ {"last_update", "hours_lookback"} \subseteq metadata
        /\ fin_log = <<"last_update", "hours_lookback", "checkpoint",
                       "journal_delete", "close">>
        /\ conn = "closed"
        /\ journal_mode = "delete"

\* C10: an exception that escaped the drain loop is raised to the caller of
\* _do_update, only after the writer has terminated with Metadata written
\* and the store closed; the command then ends with a non-zero status and
\* neither the summary nor the failure list is produced.
C10_WriterErrorRaisedAfterFinalize ==
    /\ (mpc = "exited" /\ error_holder # <<>>) =>
            /\ raised = error_holder[1]
            /\ exit_code = 1
            /\ summary = <<>> /\ failed_file = <<>>
    /\ (mpc = "exited" /\ raised = "commit_error") =>
            /\ tpc = "terminated"
            /\ {"last_update", "hours_lookback"} \subseteq metadata
            /\ conn = "closed"

(* ================= Database.close() on one store file ================= *)
\* rows written through one connection
MaxWrites == 5

\* the file and connection after Database.__init__ (database.py 49-60): the
\* tables are created and committed, the journal mode is SQLite's default.
\* main counts the committed rows held by the main file, log the committed
\* rows held only by the -wal file, pend the rows of the open transaction
SqFresh ==
    [conn |-> "open", mode |-> "delete", wal_used |-> FALSE,
     main |-> 0, log |-> 0, pend |-> 0, wal_file |-> FALSE, shm_file |-> FALSE]

\* database.py 62-70: PRAGMA journal_mode=WAL; the companion files appear
EnableWalMode(s) ==
    [s EXCEPT !.mode = "wal", !.wal_used = TRUE,
              !.wal_file = TRUE, !.shm_file = TRUE]

\* database.py 72-74: conn.commit(): in WAL mode the rows go to the -wal
\* file, otherwise to the main file
SqCommitted(s) ==
    IF s.mode = "wal"
    THEN [s EXCEPT !.log = @ + s.pend, !.pend = 0]
    ELSE [s EXCEPT !.main = @ + s.pend, !.pend = 0]

\* database.py 657: PRAGMA wal_checkpoint(TRUNCATE): the committed rows of
\* the -wal file are moved into the main file
Checkpointed(s) == [s EXCEPT !.main = @ + s.log, !.log = 0]

\* database.py 659: PRAGMA journal_mode=DELETE: the mode is switched and
\* the companion files are removed
JournalSwitched(s) ==
    [Checkpointed(s) EXCEPT !.mode = "delete",
                            !.wal_file = FALSE, !.shm_file = FALSE]

\* database.py 662: conn.close(): the open transaction is rolled back; when
\* the file is still in WAL mode SQLite tries a last checkpoint and, if it
\* succeeds (auto), removes the companion files; the mode stays WAL
ConnClosed(s, auto) ==
    LET r == [s EXCEPT !.pend = 0, !.conn = "closed"] IN
    IF s.mode = "wal" /\ auto
    THEN [Checkpointed(r) EXCEPT !.wal_file = FALSE, !.shm_file = FALSE]
    ELSE r

\* database.py 655-661: the checkpoint and the switch share one try block
\* whose except clause passes: when the checkpoint raises (ck false) the
\* switch is not attempted; when the switch fails (jm false) nothing changes
PragmasOfClose(s, ck, jm) ==
    IF ck
    THEN (IF jm THEN JournalSwitched(Checkpointed(s)) ELSE Checkpointed(s))
    ELSE s

\* database.py 648-662: Database.close()
DatabaseClose(s, ck, jm, auto) == ConnClosed(PragmasOfClose(s, ck, jm), auto)

InitClose ==
    /\ LockOff
    /\ PipeOff
    /\ sq = SqFresh
    /\ db = <<>>
    /\ job = <<>>
    /\ lg = <<>>
    /\ fd = <<>>

\* database.py 62-70: enable_wal_mode(), called on a connection with no
\* open transaction (cli.py 190-191)
SqEnableWal ==
    /\ sq.conn = "open"
    /\ sq.pend = 0
    /\ sq.mode = "delete"
    /\ sq' = EnableWalMode(sq)
    /\ UNCHANGED <<lockvars, pipevars, db, job, lg, fd>>

\* an insert without commit (database.py 261-285 and the like)
SqWrite ==
    /\ sq.conn = "open"
    /\ sq.main + sq.log + sq.pend < MaxWrites
    /\ sq' = [sq EXCEPT !.pend = @ + 1]
    /\ UNCHANGED <<lockvars, pipevars, db, job, lg, fd>>

\* database.py 72-74: commit()
SqCommit ==
    /\ sq.conn = "open"
    /\ sq.pend > 0
    /\ sq' = SqCommitted(sq)
    /\ UNCHANGED <<lockvars, pipevars, db, job, lg, fd>>

\* database.py 644-646: checkpoint(), also run by SQLite on its own when
\* the -wal file has grown
SqCheckpoint ==
    /\ sq.conn = "open"
    /\ sq.mode = "wal"
    /\ sq.log > 0
    /\ sq.pend = 0
    /\ sq' = Checkpointed(sq)
    /\ UNCHANGED <<lockvars, pipevars, db, job, lg, fd>>

\* database.py 648-662: close(), with every outcome of its three steps
SqClose ==
    /\ sq.conn = "open"
    /\ \E ck, jm, auto \in BOOLEAN : sq' = DatabaseClose(sq, ck, jm, auto)
    /\ UNCHANGED <<lockvars, pipevars, db, job, lg, fd>>

NextClose ==
    \/ SqEnableWal
    \/ SqWrite
    \/ SqCommit
    \/ SqCheckpoint
    \/ SqClose

SpecClose == InitClose /\ [][NextClose]_vars

\* C11: after close() on a store that was put in WAL mode and received
\* committed writes, every committed row is in the main file, the journal
\* mode is DELETE and neither the -wal nor the -shm file remains, on every
\* path through close().
C11_CloseLeavesOneFile ==
    (sq.conn = "closed" /\ sq.wal_used /\ sq.main + sq.log > 0) =>
        /\ sq.log = 0
        /\ sq.mode = "delete"
        /\ ~sq.wal_file
        /\ ~sq.shm_file

(* ------------------ C12: Experiment rows and successes ----------------- *)
\* C12: after a run that started from an empty store, the number of
\* Experiment rows equals the number of experiment ids whose record had an
\* info facet and was counted as a success; a record that ends in the
\* failed list contributes no Experiment row.
C12_ExperimentRowsAreSuccesses ==
    (tpc = "terminated" /\ ~Truthy(incremental)) =>
        /\ Cardinality({e \in ExpIds : "info" \in durable[e]}) = success_count
        /\ \A i \in 1..Len(failed_experiments) :
              "info" \notin durable[failed_experiments[i].experiment_id]

(* ---------------- the tables of one Database (database.py) ------------- *)
MaxRunNumber == 2
MaxStoreOps == 3

\* Python's None and SQL NULL
Null == -1

\* experiment ids "7" and "7_1", each written as its parts between
\* underscores: the second id begins with the first one followed by "_"
ExpKeys == {<<7>>, <<7, 1>>}
RunNumbers == 1..MaxRunNumber

\* database.py 76-207 on a new file: no rows; 59-60: empty caches
DbEmpty ==
    [exp |-> {}, run |-> {}, rpd |-> {}, det |-> {}, rundet |-> {},
     logbook |-> {}, quest |-> {}, wf |-> {}, meta |-> {},
     run_id_cache |-> {}, detector_cache |-> {},
     seq_run |-> 0, seq_rpd |-> 0, seq_det |-> 0, seq_log |-> 0, seq_wf |-> 0,
     unique_hit |-> FALSE]

\* database.py 211: cache_key = f"{experiment_id}_{run_number}"
CacheKey(e, n) == Append(e, n)

\* database.py 639: k.startswith(f"{experiment_id}_")
StartsWith(k, e) == Len(k) > Len(e) /\ SubSeq(k, 1, Len(e)) = e

\* database.py 224-227: INSERT INTO Run; UNIQUE(run_number, experiment_id)
\* (130) rejects a second row with the same key
InsertRun(d, e, n) ==
    IF \E r \in d.run : r.experiment_id = e /\ r.run_number = n
    THEN [d EXCEPT !.unique_hit = TRUE]
    ELSE [d EXCEPT !.run = @ \cup {[run_id |-> d.seq_run + 1,
                                     experiment_id |-> e, run_number |-> n]},
                   !.seq_run = @ + 1]

\* database.py 209-231: _get_or_create_run_id; the result is the store
\* after the call and the id returned
GetOrCreateRunId(d, e, n) ==
    LET key == CacheKey(e, n)
        hit == {c \in d.run_id_cache : c.key = key}
        found == {r \in d.run : r.experiment_id = e /\ r.run_number = n}
    IN  IF hit # {}
        THEN [d |-> d, id |-> (CHOOSE c \in hit : TRUE).id]
        ELSE IF found # {}
        THEN LET id == (CHOOSE r \in found : TRUE).run_id IN
             [d |-> [d EXCEPT !.run_id_cache = @ \cup {[key |-> key, id |-> id]}],
              id |-> id]
        ELSE [d |-> [InsertRun(d, e, n) EXCEPT
                        !.run_id_cache = @ \cup {[key |-> key, id |-> d.seq_run + 1]}],
              id |-> d.seq_run + 1]

\* database.py 233-254: _get_or_create_detector_id
GetOrCreateDetectorId(d, name) ==
    LET hit == {c \in d.detector_cache : c.key = name}
        found == {x \in d.det : x.detector_name = name}
    IN  IF hit # {}
        THEN [d |-> d, id |-> (CHOOSE c \in hit : TRUE).id]
        ELSE IF found # {}
        THEN LET id == (CHOOSE x \in found : TRUE).detector_id IN
             [d |-> [d EXCEPT !.detector_cache = @ \cup {[key |-> name, id |-> id]}],
              id |-> id]
        ELSE [d |-> [d EXCEPT
                        !.det = @ \cup {[detector_id |-> d.seq_det + 1,
                                         detector_name |-> name]},
                        !.seq_det = @ + 1,
                        !.detector_cache = @ \cup {[key |-> name, id |-> d.seq_det + 1]}],
              id |-> d.seq_det + 1]

\* database.py 261-285: INSERT OR REPLACE INTO Experiment
InsertExperimentRow(d, e) == [d EXCEPT !.exp = @ \cup {e}]

\* database.py 386-403: one entry of the logbook list
RECURSIVE InsertLogbookEntries(_, _, _)
InsertLogbookEntries(d, e, entries) ==
    IF entries = <<>> THEN d
    ELSE LET n == Head(entries)
             g == IF n # Null THEN GetOrCreateRunId(d, e, n)
                  ELSE [d |-> d, id |-> Null]
             d1 == [g.d EXCEPT
                      !.logbook = @ \cup {[log_id |-> g.d.seq_log + 1,
                                           experiment_id |-> e, run_id |-> g.id]},
                      !.seq_log = @ + 1]
         IN  InsertLogbookEntries(d1, e, Tail(entries))

\* database.py 370-405: _insert_logbook_no_commit; entries are the run
\* numbers (or None) of the entries of experiment e
InsertLogbook(d, e, entries) ==
    IF entries = <<>> THEN d
    ELSE InsertLogbookEntries(
             [d EXCEPT !.logbook = {l \in @ : l.experiment_id # e}], e, entries)

\* SQL COALESCE(new, old)
Overwrite(new, old) == new
Coalesce(new, old) == IF new # Null THEN new ELSE old

\* database.py 417-476: one element of data_production
InsertProduction(d, e, p) ==
    IF p.run_number = Null THEN d
    ELSE LET g == GetOrCreateRunId(d, e, p.run_number)
             existing == {x \in g.d.rpd : x.run_id = g.id}
         IN  IF existing # {}
             THEN [g.d EXCEPT !.rpd =
                     {IF x.run_id = g.id
                      THEN [x EXCEPT !.n_events = Coalesce(p.n_events, @),
                                     !.n_damaged = Coalesce(p.n_damaged, @)]
                      ELSE x : x \in @}]
             ELSE [g.d EXCEPT
                     !.rpd = @ \cup {[run_data_id |-> g.d.seq_rpd + 1,
                                      run_id |-> g.id,
                                      n_events |-> p.n_events,
                                      n_damaged |-> p.n_damaged,
                                      number_of_files |-> Null]},
                     !.seq_rpd = @ + 1]

RECURSIVE InsertProductions(_, _, _)
InsertProductions(d, e, ps) ==
    IF ps = <<>> THEN d
    ELSE InsertProductions(InsertProduction(d, e, Head(ps)), e, Tail(ps))

\* database.py 486-497: the detector columns of one element of detectors;
\* a blank column name is skipped
RECURSIVE InsertRunDetectors(_, _, _)
InsertRunDetectors(d, run_id, names) ==
    IF names = <<>> THEN d
    ELSE IF Head(names) = "" THEN InsertRunDetectors(d, run_id, Tail(names))
    ELSE LET g == GetOrCreateDetectorId(d, Head(names)) IN
         InsertRunDetectors(
             [g.d EXCEPT !.rundet = @ \cup {[run_id |-> run_id, detector_id |-> g.id]}],
             run_id, Tail(names))

\* database.py 479-497: one element of detectors
InsertDetectorData(d, e, x) ==
    IF x.run_number = Null THEN d
    ELSE LET g == GetOrCreateRunId(d, e, x.run_number) IN
         InsertRunDetectors(g.d, g.id, x.names)

RECURSIVE InsertDetectors(_, _, _)
InsertDetectors(d, e, xs) ==
    IF xs = <<>> THEN d
    ELSE InsertDetectors(InsertDetectorData(d, e, Head(xs)), e, Tail(xs))

\* database.py 412-500: _insert_runtable_no_commit
InsertRuntable(d, e, rt) ==
    InsertDetectors(InsertProductions(d, e, rt.data_production), e, rt.detectors)

\* database.py 512-554: one element of file_manager_records
InsertFileRecord(d, e, p) ==
    IF p.run_number = Null THEN d
    ELSE LET g == GetOrCreateRunId(d, e, p.run_number)
             existing == {x \in g.d.rpd : x.run_id = g.id}
         IN  IF existing # {}
             THEN [g.d EXCEPT !.rpd =
                     {IF x.run_id = g.id
                      THEN [x EXCEPT !.number_of_files = Coalesce(p.number_of_files, @)]
                      ELSE x : x \in @}]
             ELSE [g.d EXCEPT
                     !.rpd = @ \cup {[run_data_id |-> g.d.seq_rpd + 1,
                                      run_id |-> g.id,
                                      n_events |-> Null,
                                      n_damaged |-> Null,
                                      number_of_files |-> p.number_of_files]},
                     !.seq_rpd = @ + 1]

\* database.py 507-556: _insert_file_manager_no_commit
RECURSIVE InsertFileManager(_, _, _)
InsertFileManager(d, e, records) ==
    IF records = <<>> THEN d
    ELSE InsertFileManager(InsertFileRecord(d, e, Head(records)), e, Tail(records))

\* database.py 304-321: INSERT OR REPLACE INTO Questionnaire: the row that
\* conflicts on UNIQUE(experiment_id, field_id) (105) is deleted, the new
\* row is inserted
QuestionnaireInsertOrReplace(table, row) ==
    {q \in table : ~(q.experiment_id = row.experiment_id /\ q.field_id = row.field_id)}
    \cup {row}

\* database.py 304-321: the loop over the fields from the i-th one on; a
\* field is its field_id, and its position in the list stands for its
\* field_value
RECURSIVE InsertQuestionnaireFields(_, _, _, _)
InsertQuestionnaireFields(table, e, fields, i) ==
    IF i > Len(fields) THEN table
    ELSE InsertQuestionnaireFields(
             QuestionnaireInsertOrReplace(table,
                 [experiment_id |-> e, field_id |-> fields[i], field_value |-> i]),
             e, fields, i + 1)

\* the INSERT OR REPLACE loop without the DELETE before it
InsertQuestionnaireKeeping(d, e, fields) ==
    [d EXCEPT !.quest = InsertQuestionnaireFields(@, e, fields, 1)]

\* database.py 292-324: _insert_questionnaire_no_commit: DELETE the rows of
\* the experiment, then INSERT OR REPLACE every field
InsertQuestionnaire(d, e, fields) ==
    [d EXCEPT !.quest = InsertQuestionnaireFields(
                            {q \in @ : q.experiment_id # e}, e, fields, 1)]

\* database.py 336-361: _insert_workflow_no_commit, one row per workflow
InsertWorkflow(d, e, count) ==
    [d EXCEPT !.wf = {w \in @ : w.experiment_id # e}
                     \cup {[workflow_id |-> d.seq_wf + i, experiment_id |-> e] :
                             i \in 1..count},
              !.seq_wf = @ + count]

\* database.py 581-591: INSERT OR REPLACE INTO Metadata
SetMetadata(d, key) == [d EXCEPT !.meta = @ \cup {key}]

\* database.py 636-640 left out: the cache keeps the deleted runs
KeepRunIdCache(cache, e) == cache
\* database.py 636-640
ClearRunIdCache(cache, e) == {c \in cache : ~StartsWith(c.key, e)}

\* delete_experiment without the dependents of its runs (lines 617-626)
DeleteOwnRows(d, e) ==
    [d EXCEPT
        !.logbook = {l \in @ : l.experiment_id # e},
        !.run = {r \in @ : r.experiment_id # e},
        !.quest = {q \in @ : q.experiment_id # e},
        !.wf = {w \in @ : w.experiment_id # e},
        !.exp = @ \ {e},
        !.run_id_cache = ClearRunIdCache(@, e)]

\* a DELETE without its WHERE clause
DeleteAllRows(d, e) ==
    [d EXCEPT !.rundet = {}, !.rpd = {}, !.logbook = {}, !.run = {},
              !.quest = {}, !.wf = {}, !.exp = {}, !.run_id_cache = {}]

\* database.py 610-642: delete_experiment
DeleteExperimentRows(d, e) ==
    LET run_ids == {r.run_id : r \in {x \in d.run : x.experiment_id = e}} IN
    [d EXCEPT
        !.rundet = {x \in @ : x.run_id \notin run_ids},
        !.rpd = {x \in @ : x.run_id \notin run_ids},
        !.logbook = {l \in @ : l.experiment_id # e},
        !.run = {r \in @ : r.experiment_id # e},
        !.quest = {q \in @ : q.experiment_id # e},
        !.wf = {w \in @ : w.experiment_id # e},
        !.exp = @ \ {e},
        !.run_id_cache = ClearRunIdCache(@, e)]

\* database.py 49-60: a new Database on an existing file (a copied base):
\* the rows are those of the file, both caches are empty
OpenExisting(d) == [d EXCEPT !.run_id_cache = {}, !.detector_cache = {}]

(* --------------- any sequence of calls on one Database ----------------- *)
\* the arguments the calls are tried with
LogbookChoices == {<<>>, <<Null>>, <<1>>, <<MaxRunNumber, 1>>}
ProductionChoices ==
    {[run_number |-> n, n_events |-> v[1], n_damaged |-> v[2]] :
        n \in RunNumbers, v \in {<<Null, Null>>, <<100, Null>>, <<7, Null>>, <<Null, 5>>}}
RuntableChoices ==
    {[data_production |-> <<p>>, detectors |-> <<>>] : p \in ProductionChoices}
    \cup {[data_production |-> <<>>,
           detectors |-> <<[run_number |-> 1, names |-> <<"cspad", "">>]>>],
          [data_production |-> <<[run_number |-> Null, n_events |-> 100, n_damaged |-> 5]>>,
           detectors |-> <<[run_number |-> Null, names |-> <<"cspad">>]>>]}
FileManagerChoices ==
    {<<[run_number |-> n, number_of_files |-> v]>> : n \in RunNumbers, v \in {Null, 3}}
QuestionnaireChoices == {<<>>, <<1, 2, 1>>}
WorkflowChoices == {0, 2}

NoCall == [op |-> "none", e |-> <<>>, arg |-> <<>>]
Call(op, e, arg) == [op |-> op, e |-> e, arg |-> arg]

InitStore ==
    /\ LockOff
    /\ PipeOff
    /\ sq = <<>>
    /\ db = DbEmpty
    /\ job = [ops |-> 0, last |-> NoCall]
    /\ lg = <<>>
    /\ fd = <<>>

\* the caller's record after one more call
Recorded(op, e, arg) == [ops |-> job.ops + 1, last |-> Call(op, e, arg)]

\* database.py 256-259: insert_experiment
StInsertExperiment ==
    /\ job.ops < MaxStoreOps
    /\ \E e \in ExpKeys :
        /\ db' = InsertExperimentRow(db, e)
        /\ job' = Recorded("insert_experiment", e, <<>>)
    /\ UNCHANGED <<lockvars, pipevars, sq, lg, fd>>

\* database.py 365-368: insert_logbook
StInsertLogbook ==
    /\ job.ops < MaxStoreOps
    /\ \E e \in ExpKeys, entries \in LogbookChoices :
        /\ db' = InsertLogbook(db, e, entries)
        /\ job' = Recorded("insert_logbook", e, entries)
    /\ UNCHANGED <<lockvars, pipevars, sq, lg, fd>>

\* database.py 407-410: insert_runtable
StInsertRuntable ==
    /\ job.ops < MaxStoreOps
    /\ \E e \in ExpKeys, rt \in RuntableChoices :
        /\ db' = InsertRuntable(db, e, rt)
        /\ job' = Recorded("insert_runtable", e, rt)
    /\ UNCHANGED <<lockvars, pipevars, sq, lg, fd>>

\* database.py 502-505: insert_file_manager
StInsertFileManager ==
    /\ job.ops < MaxStoreOps
    /\ \E e \in ExpKeys, records \in FileManagerChoices :
        /\ db' = InsertFileManager(db, e, records)
        /\ job' = Recorded("insert_file_manager", e, records)
    /\ UNCHANGED <<lockvars, pipevars, sq, lg, fd>>

\* database.py 287-290: insert_questionnaire
StInsertQuestionnaire ==
    /\ job.ops < MaxStoreOps
    /\ \E e \in ExpKeys, fields \in QuestionnaireChoices :
        /\ db' = InsertQuestionnaire(db, e, fields)
        /\ job' = Recorded("insert_questionnaire", e, fields)
    /\ UNCHANGED <<lockvars, pipevars, sq, lg, fd>>

\* database.py 326-329: insert_workflow
StInsertWorkflow ==
    /\ job.ops < MaxStoreOps
    /\ \E e \in ExpKeys, count \in WorkflowChoices :
        /\ db' = InsertWorkflow(db, e, count)
        /\ job' = Recorded("insert_workflow", e, count)
    /\ UNCHANGED <<lockvars, pipevars, sq, lg, fd>>

\* database.py 581-584: set_metadata
StSetMetadata ==
    /\ job.ops < MaxStoreOps
    /\ \E key \in {"last_update", "hours_lookback"} :
        /\ db' = SetMetadata(db, key)
        /\ job' = Recorded("set_metadata", <<>>, key)
    /\ UNCHANGED <<lockvars, pipevars, sq, lg, fd>>

\* database.py 610-642: delete_experiment
StDeleteExperiment ==
    /\ job.ops < MaxStoreOps
    /\ \E e \in ExpKeys :
        /\ db' = DeleteExperimentRows(db, e)
        /\ job' = Recorded("delete_experiment", e, <<>>)
    /\ UNCHANGED <<lockvars, pipevars, sq, lg, fd>>

\* cli.py 166-170, 190: the file is copied and opened by a new Database
StOpenExisting ==
    /\ job.ops < MaxStoreOps
    /\ job.last.op # "open"
    /\ db' = OpenExisting(db)
    /\ job' = Recorded("open", <<>>, <<>>)
    /\ UNCHANGED <<lockvars, pipevars, sq, lg, fd>>

NextStore ==
    \/ StInsertExperiment
    \/ StInsertLogbook
    \/ StInsertRuntable
    \/ StInsertFileManager
    \/ StInsertQuestionnaire
    \/ StInsertWorkflow
    \/ StSetMetadata
    \/ StDeleteExperiment
    \/ StOpenExisting

SpecStore == InitStore /\ [][NextStore]_vars

(* ------------------- C14: RunProductionData coalescing ----------------- *)
SeqRange(s) == {s[i] : i \in 1..Len(s)}

\* the non-null values a call carries, as <<run number, field, value>>
CarriedBy(call) ==
    IF call.op = "insert_runtable"
    THEN UNION {{<<p.run_number, "n_events", p.n_events>>,
                 <<p.run_number, "n_damaged", p.n_damaged>>} :
                    p \in SeqRange(call.arg.data_production)}
    ELSE IF call.op = "insert_file_manager"
    THEN {<<p.run_number, "number_of_files", p.number_of_files>> :
            p \in SeqRange(call.arg)}
    ELSE {}
NonNullCarried(call) == {c \in CarriedBy(call) : c[1] # Null /\ c[3] # Null}

RpdFieldNames == {"n_events", "n_damaged", "number_of_files"}

\* the (experiment, run number) a RunProductionData row belongs to
RunOfRow(d, x) == CHOOSE r \in d.run : r.run_id = x.run_id

\* C14: over any insert_runtable or insert_file_manager write, a
\* RunProductionData field that is non-null is not null afterwards, a field
\* for which the write carries null (or nothing) keeps its stored value, and
\* a field that was null takes the non-null value the write carries: a row
\* {n_events: 100, n_damaged: null} written with {n_events: null,
\* n_damaged: 5} becomes {n_events: 100, n_damaged: 5}.
C14_CoalescingKeepsValues ==
    [][job'.last.op \in {"insert_runtable", "insert_file_manager"} =>
        \A x \in db.rpd :
            \E y \in db'.rpd :
                /\ y.run_data_id = x.run_data_id
                /\ y.run_id = x.run_id
                /\ \A f \in RpdFieldNames :
                    LET r == RunOfRow(db, x)
                        carried == {c \in NonNullCarried(job'.last) :
                                        /\ r.experiment_id = job'.last.e
                                        /\ c[1] = r.run_number
                                        /\ c[2] = f}
                    IN  /\ x[f] # Null => y[f] # Null
                        /\ carried = {} => y[f] = x[f]
                        /\ (x[f] = Null /\ carried # {}) =>
                                \E c \in carried : y[f] = c[3]]_vars

\* the example of the claim has happened: the last write carried null for
\* n_events and 5 for n_damaged, and the row holds 100 and 5
C14_Witness ==
    /\ job.last.op = "insert_runtable"
    /\ \E p \in SeqRange(job.last.arg.data_production) :
        /\ p.n_events = Null
        /\ p.n_damaged = 5
        /\ \E r \in db.run, x \in db.rpd :
            /\ r.experiment_id = job.last.e
            /\ r.run_number = p.run_number
            /\ x.run_id = r.run_id
            /\ x.n_events = 100
            /\ x.n_damaged = 5

(* ----------------------- C15: one Run row per key ---------------------- *)
\* C15: after any sequence of calls on one Database (a reopened copy and a
\* re-insertion after a delete included) there is at most one Run row per
\* (experiment_id, run_number), no insert into Run has hit the uniqueness
\* constraint, the id _get_or_create_run_id returns for any key is the id
\* of a Run row with exactly that key, and so is every id it has returned
\* to a Logbook row.
C15_RunUniquePerKey ==
    /\ \A r1, r2 \in db.run :
            (r1.experiment_id = r2.experiment_id /\ r1.run_number = r2.run_number)
                => r1 = r2
    /\ ~db.unique_hit
    /\ \A e \in ExpKeys, n \in RunNumbers :
            LET g == GetOrCreateRunId(db, e, n) IN
            /\ ~g.d.unique_hit
            /\ \E r \in g.d.run :
                /\ r.run_id = g.id
                /\ r.experiment_id = e
                /\ r.run_number = n
    /\ \A l \in db.logbook :
            l.run_id # Null =>
                \E r \in db.run :
                    r.run_id = l.run_id /\ r.experiment_id = l.experiment_id

\* a run was deleted and its key inserted again: the only Run row of the
\* store is the second one ever created, made by the last call
C15_Witness ==
    /\ job.last.op \in {"insert_logbook", "insert_runtable", "insert_file_manager"}
    /\ db.seq_run = 2
    /\ \E r \in db.run :
        /\ db.run = {r}
        /\ r.run_id = 2
        /\ r.experiment_id = job.last.e
        /\ \E c \in db.run_id_cache : c.id = 2 /\ c.key = CacheKey(r.experiment_id, r.run_number)
    /\ \A c \in db.run_id_cache : c.id # 1

(* ---------------------- C17: delete_experiment ------------------------- *)
\* the run ids of experiment e in store d
RunIdsOf(d, e) == {r.run_id : r \in {x \in d.run : x.experiment_id = e}}

\* C17: over any delete_experiment(e), no row of e remains in Experiment,
\* Run, RunProductionData, RunDetector, Logbook, Questionnaire or Workflow,
\* no RunProductionData, RunDetector or Logbook row refers to a missing
\* Run, and the rows of every other experiment, the Detector rows and the
\* Metadata rows are unchanged.
C17_DeleteRemovesOnlyItsRows ==
    [][job'.last.op = "delete_experiment" =>
        LET e == job'.last.e
            gone == RunIdsOf(db, e)
        IN  /\ e \notin db'.exp
            /\ \A r \in db'.run : r.experiment_id # e
            /\ \A x \in db'.rpd : x.run_id \notin gone
            /\ \A x \in db'.rundet : x.run_id \notin gone
            /\ \A l \in db'.logbook : l.experiment_id # e
            /\ \A q \in db'.quest : q.experiment_id # e
            /\ \A w \in db'.wf : w.experiment_id # e
            /\ \A x \in db'.rpd : \E r \in db'.run : r.run_id = x.run_id
            /\ \A x \in db'.rundet : \E r \in db'.run : r.run_id = x.run_id
            /\ \A l \in db'.logbook :
                    l.run_id # Null => \E r \in db'.run : r.run_id = l.run_id
            /\ db'.exp = db.exp \ {e}
            /\ db'.run = {r \in db.run : r.experiment_id # e}
            /\ db'.rpd = {x \in db.rpd : x.run_id \notin gone}
            /\ db'.rundet = {x \in db.rundet : x.run_id \notin gone}
            /\ db'.logbook = {l \in db.logbook : l.experiment_id # e}
            /\ db'.quest = {q \in db.quest : q.experiment_id # e}
            /\ db'.wf = {w \in db.wf : w.experiment_id # e}
            /\ db'.det = db.det
            /\ db'.meta = db.meta]_vars

\* delete_experiment has removed a run with its production data while
\* another experiment keeps its run and its production data
C17_Witness ==
    /\ job.last.op = "delete_experiment"
    /\ db.seq_run = 2
    /\ db.seq_rpd = 2
    /\ \E r \in db.run, x \in db.rpd :
        /\ db.run = {r}
        /\ db.rpd = {x}
        /\ r.experiment_id # job.last.e
        /\ x.run_id = r.run_id

(* --------- two incremental updates over the same upstream state -------- *)
MaxListLen == 2

\* what the fetchers return for a facet of an experiment when they return
\* something (cli.py 261-269); a facet that is absent is None or empty
LogbookOf(e) == <<1, Null, 1>>
RuntableOf(e) ==
    [data_production |-> <<[run_number |-> 1, n_events |-> 100, n_damaged |-> Null]>>,
     detectors |-> <<[run_number |-> 1, names |-> <<"cspad">>]>>]
FileManagerOf(e) == <<[run_number |-> MaxRunNumber, number_of_files |-> 3]>>
QuestionnaireOf(e) == <<1, 2>>
WorkflowOf(e) == 2

\* database.py 558-579: insert_experiment_batch, each facet written when
\* the record carries it
DbInsertExperimentBatch(d, data) ==
    LET e  == data.experiment_id
        d1 == IF "info" \in data.facets THEN InsertExperimentRow(d, e) ELSE d
        d2 == IF "logbook" \in data.facets THEN InsertLogbook(d1, e, LogbookOf(e)) ELSE d1
        d3 == IF "runtable" \in data.facets THEN InsertRuntable(d2, e, RuntableOf(e)) ELSE d2
        d4 == IF "file_manager" \in data.facets
              THEN InsertFileManager(d3, e, FileManagerOf(e)) ELSE d3
        d5 == IF "questionnaire" \in data.facets
              THEN InsertQuestionnaire(d4, e, QuestionnaireOf(e)) ELSE d4
    IN  IF "workflow" \in data.facets THEN InsertWorkflow(d5, e, WorkflowOf(e)) ELSE d5

\* cli.py 218-222: the writer's treatment of one record of an incremental
\* update
IncrementalWrite(d, data) ==
    DbInsertExperimentBatch(DeleteExperimentRows(d, data.experiment_id), data)

\* cli.py 250-252: the two Metadata keys, then close()
Finalized(d) == SetMetadata(SetMetadata(d, "last_update"), "hours_lookback")

\* SELECT COUNT(*) of every table
RowCounts(d) ==
    [Experiment |-> Cardinality(d.exp), Run |-> Cardinality(d.run),
     RunProductionData |-> Cardinality(d.rpd), Detector |-> Cardinality(d.det),
     RunDetector |-> Cardinality(d.rundet), Logbook |-> Cardinality(d.logbook),
     Questionnaire |-> Cardinality(d.quest), Workflow |-> Cardinality(d.wf),
     Metadata |-> Cardinality(d.meta)]

CompositeRecords == {[experiment_id |-> e, facets |-> F] : e \in ExpKeys, F \in SUBSET AllFacets}
RecordLists ==
    UNION {[1..k -> CompositeRecords] : k \in 1..MaxListLen}

\* the base of the first update: an empty store, or the artifact of an
\* earlier run that holds every facet of every experiment
FullBase ==
    Finalized(
        DbInsertExperimentBatch(
            DbInsertExperimentBatch(DbEmpty,
                [experiment_id |-> <<7>>, facets |-> AllFacets]),
            [experiment_id |-> <<7, 1>>, facets |-> AllFacets]))

InitTwice ==
    /\ LockOff
    /\ PipeOff
    /\ sq = <<>>
    /\ db \in {DbEmpty, FullBase}
    /\ \E l \in RecordLists :
        job = [list |-> l, pos |-> 0, pass |-> 1, phase |-> "start", first |-> <<>>]
    /\ lg = <<>>
    /\ fd = <<>>

\* cli.py 166-176, 190: the base is copied and opened by a new Database
TwOpen ==
    /\ job.phase = "start"
    /\ db' = OpenExisting(db)
    /\ job' = [job EXCEPT !.phase = "write", !.pos = 1]
    /\ UNCHANGED <<lockvars, pipevars, sq, lg, fd>>

\* cli.py 206-230: the next record of the list is written
TwWrite ==
    /\ job.phase = "write"
    /\ job.pos <= Len(job.list)
    /\ db' = IncrementalWrite(db, job.list[job.pos])
    /\ job' = [job EXCEPT !.pos = @ + 1]
    /\ UNCHANGED <<lockvars, pipevars, sq, lg, fd>>

\* cli.py 243-252: the end of the writer; the second update starts from
\* the artifact of the first
TwFinalize ==
    /\ job.phase = "write"
    /\ job.pos > Len(job.list)
    /\ db' = Finalized(db)
    /\ job' = IF job.pass = 1
              THEN [job EXCEPT !.pass = 2, !.phase = "start", !.pos = 0,
                               !.first = RowCounts(db')]
              ELSE [job EXCEPT !.phase = "done"]
    /\ UNCHANGED <<lockvars, pipevars, sq, lg, fd>>

NextTwice ==
    \/ TwOpen
    \/ TwWrite
    \/ TwFinalize

SpecTwice == InitTwice /\ [][NextTwice]_vars

\* C13: after the second of two incremental updates with the same list and
\* the same records, the second based on the artifact of the first, every
\* table (Experiment, Run, RunProductionData, Detector, RunDetector,
\* Logbook, Questionnaire, Workflow, Metadata) has the row count it had
\* after the first.
C13_SecondRunSameCounts ==
    job.phase = "done" => RowCounts(db) = job.first

\* both updates are over and each of the nine tables holds rows
C13_Witness ==
    /\ job.phase = "done"
    /\ job.pass = 2
    /\ Len(job.list) = MaxListLen
    /\ \A t \in DOMAIN job.first : job.first[t] > 0
    /\ RowCounts(db) = job.first
    /\ db.seq_run > Cardinality(db.run)

\* C16: in every store state reached by the writer, every Run row's
\* experiment_id is the key of an existing Experiment row.
C16_RunHasExperiment ==
    \A r \in db.run : r.experiment_id \in db.exp

(* ------------- run-number inference (api/logbook.py) ------------------- *)
MaxEntries == 4
MaxTime == 4

\* the lower-cased content of an entry as its words, ":" being a word of
\* its own: a note, an announcement of run 2, an announcement whose number
\* is not a number, and the phrase placed after the first colon
ContentChoices ==
    {<<"beam", "lost">>,
     <<"run", "number", "2", ":", "running">>,
     <<"run", "number", "x", ":", "running">>,
     <<"daq", ":", "run", "number", "2", "running">>}

\* int(): a ValueError is the value None
IntOf(word) ==
    CASE word = "1" -> 1
      [] word = "2" -> 2
      [] OTHER -> Null

\* content.split(":")[0].split(): the words before the first colon
RECURSIVE BeforeColon(_)
BeforeColon(words) ==
    IF words = <<>> \/ Head(words) = ":" THEN <<>>
    ELSE <<Head(words)>> \o BeforeColon(Tail(words))

\* the token after the first "number" of the whole text, the colon ignored
ParseRunNumberAnywhere(content) ==
    LET matches == /\ \E i \in 1..(Len(content) - 1) :
                          content[i] = "run" /\ content[i + 1] = "number"
                   /\ \E i \in 1..Len(content) : content[i] = "running"
        at == {i \in 1..(Len(content) - 1) : content[i] = "number"}
    IN  IF ~matches \/ at = {} THEN Null
        ELSE IntOf(content[(CHOOSE i \in at : \A j \in at : i <= j) + 1])

\* logbook.py 109-117: the run number a narrative entry announces, None
\* when the text does not match or the number does not parse
ParseRunNumber(content) ==
    LET matches == /\ \E i \in 1..(Len(content) - 1) :
                          content[i] = "run" /\ content[i + 1] = "number"
                   /\ \E i \in 1..Len(content) : content[i] = "running"
        parts == BeforeColon(content)
        at == {i \in 1..(Len(parts) - 1) : parts[i] = "number"}
    IN  IF ~matches \/ at = {} THEN Null
        ELSE IntOf(parts[(CHOOSE i \in at : \A j \in at : i <= j) + 1])

\* a dict with no key, and d[k] = v
EmptyDict == [k \in {} |-> Null]
DictPut(d, k, v) == [x \in DOMAIN d \cup {k} |-> IF x = k THEN v ELSE d[x]]
\* d.get(k)
DictGet(d, k) == IF k \in DOMAIN d THEN d[k] ELSE Null

\* logbook.py 60: sorted() by insert_time; entries of equal time keep their
\* order
RECURSIVE InsertByTime(_, _)
InsertByTime(s, x) ==
    IF s = <<>> THEN <<x>>
    ELSE IF x.insert_time < Head(s).insert_time THEN <<x>> \o s
    ELSE <<Head(s)>> \o InsertByTime(Tail(s), x)

RECURSIVE SortedEntries(_)
SortedEntries(raw) ==
    IF raw = <<>> THEN <<>>
    ELSE InsertByTime(SortedEntries(SubSeq(raw, 1, Len(raw) - 1)), raw[Len(raw)])

\* logbook.py 96-119: _identify_run_boundaries, from the given dict on
RECURSIVE IdentifyFrom(_, _)
IdentifyFrom(entries, run_boundaries) ==
    IF entries = <<>> THEN run_boundaries
    ELSE LET entry == Head(entries)
             parsed == ParseRunNumber(entry.content)
             next == IF entry.run_num # Null
                     THEN DictPut(run_boundaries, entry.insert_time, entry.run_num)
                     ELSE IF parsed # Null
                     THEN DictPut(run_boundaries, entry.insert_time, parsed)
                     ELSE run_boundaries
         IN  IdentifyFrom(Tail(entries), next)

IdentifyRunBoundaries(sorted_entries) == IdentifyFrom(sorted_entries, EmptyDict)

\* sorted(run_boundaries.keys())
RECURSIVE SortedKeys(_)
SortedKeys(keys) ==
    IF keys = {} THEN <<>>
    ELSE LET least == CHOOSE k \in keys : \A j \in keys : k <= j IN
         <<least>> \o SortedKeys(keys \ {least})

\* the loop taking, for a timestamp before a boundary, the run of that
\* boundary instead of the run of the boundary before it
RECURSIVE InferLoopLater(_, _, _, _, _)
InferLoopLater(timestamp, boundary_times, boundary_runs, i, inferred_run) ==
    IF i > Len(boundary_times) THEN inferred_run
    ELSE IF timestamp < boundary_times[i]
    THEN boundary_runs[i]
    ELSE IF i = Len(boundary_times) \/ timestamp = boundary_times[i]
    THEN InferLoopLater(timestamp, boundary_times, boundary_runs, i + 1, boundary_runs[i])
    ELSE InferLoopLater(timestamp, boundary_times, boundary_runs, i + 1, inferred_run)

\* logbook.py 141-147: the loop over the boundaries for one timestamp, from
\* position i (counted from 1) with the value inferred so far
RECURSIVE InferLoop(_, _, _, _, _)
InferLoop(timestamp, boundary_times, boundary_runs, i, inferred_run) ==
    IF i > Len(boundary_times) THEN inferred_run
    ELSE IF timestamp < boundary_times[i]
    THEN (IF i > 1 THEN boundary_runs[i - 1] ELSE inferred_run)
    ELSE IF i = Len(boundary_times) \/ timestamp = boundary_times[i]
    THEN InferLoop(timestamp, boundary_times, boundary_runs, i + 1, boundary_runs[i])
    ELSE InferLoop(timestamp, boundary_times, boundary_runs, i + 1, inferred_run)

\* logbook.py 122-151: _infer_run_numbers, from the given dict on
RECURSIVE InferFrom(_, _, _)
InferFrom(entries, run_boundaries, inferred_runs) ==
    IF entries = <<>> THEN inferred_runs
    ELSE LET entry == Head(entries)
             boundary_times == SortedKeys(DOMAIN run_boundaries)
             boundary_runs == [i \in 1..Len(boundary_times) |->
                                  run_boundaries[boundary_times[i]]]
             next == IF entry.run_num # Null THEN inferred_runs
                     ELSE DictPut(inferred_runs, entry.id,
                                  InferLoop(entry.insert_time, boundary_times,
                                            boundary_runs, 1, Null))
         IN  InferFrom(Tail(entries), run_boundaries, next)

InferRunNumbers(sorted_entries, run_boundaries) ==
    InferFrom(sorted_entries, run_boundaries, EmptyDict)

\* run_number = inferred_runs.get(entry_id), whatever the entry carries
InferredOnly(entry, inferred_runs) == DictGet(inferred_runs, entry.id)
\* logbook.py 70-74: the explicit run number if there is one, otherwise
\* the inferred one
ResolvedRun(entry, inferred_runs) ==
    IF entry.run_num # Null THEN entry.run_num
    ELSE DictGet(inferred_runs, entry.id)

\* logbook.py 46-86: _transform_entries
TransformEntries(raw_entries) ==
    LET sorted_entries == SortedEntries(raw_entries)
        run_boundaries == IdentifyRunBoundaries(sorted_entries)
        inferred_runs == InferRunNumbers(sorted_entries, run_boundaries)
    IN  [k \in 1..Len(sorted_entries) |->
            [log_id |-> sorted_entries[k].id,
             run_number |-> ResolvedRun(sorted_entries[k], inferred_runs),
             timestamp |-> sorted_entries[k].insert_time]]

\* the raw entries the API may return: the id is the position in the
\* response, so ids are distinct
RawEntryChoices(id) ==
    {[id |-> id, insert_time |-> t, run_num |-> n, content |-> <<"beam", "lost">>] :
        t \in 1..MaxTime, n \in RunNumbers}
    \cup {[id |-> id, insert_time |-> t, run_num |-> Null, content |-> c] :
            t \in 1..MaxTime, c \in ContentChoices}

InitLogbook ==
    /\ LockOff
    /\ PipeOff
    /\ sq = <<>>
    /\ db = <<>>
    /\ job = <<>>
    /\ lg = [raw |-> <<>>, out |-> <<>>, done |-> FALSE]
    /\ fd = <<>>

\* logbook.py 36: one more entry in the response of the API
LgReceive ==
    /\ ~lg.done
    /\ Len(lg.raw) < MaxEntries
    /\ \E entry \in RawEntryChoices(Len(lg.raw) + 1) :
        lg' = [lg EXCEPT !.raw = Append(@, entry)]
    /\ UNCHANGED <<lockvars, pipevars, sq, db, job, fd>>

\* logbook.py 39: _transform_entries(experiment_id, raw_entries)
LgTransform ==
    /\ ~lg.done
    /\ lg' = [lg EXCEPT !.out = TransformEntries(lg.raw), !.done = TRUE]
    /\ UNCHANGED <<lockvars, pipevars, sq, db, job, fd>>

NextLogbook ==
    \/ LgReceive
    \/ LgTransform

SpecLogbook == InitLogbook /\ [][NextLogbook]_vars

(* ----------------------- C18: inferred run numbers --------------------- *)
\* the boundary points of a list of entries: an entry with an explicit run
\* number, or a narrative entry that announces one
BoundaryRun(entry) ==
    IF entry.run_num # Null THEN entry.run_num ELSE ParseRunNumber(entry.content)
BoundaryPoints(raw) == {i \in 1..Len(raw) : BoundaryRun(raw[i]) # Null}

DistinctTimes(raw) ==
    \A i, j \in 1..Len(raw) : i # j => raw[i].insert_time # raw[j].insert_time

\* the run of the latest boundary point at or before time t, None if there
\* is none
RunInForceAt(raw, t) ==
    LET before == {i \in BoundaryPoints(raw) : raw[i].insert_time <= t} IN
    IF before = {} THEN Null
    ELSE BoundaryRun(raw[CHOOSE i \in before :
                            \A j \in before : raw[j].insert_time <= raw[i].insert_time])

\* C18: for a list of entries with distinct timestamps, every entry that
\* lacks an explicit run number gets the run number of the latest boundary
\* point at or before its timestamp, and none when there is no such
\* boundary point.
C18_InferredFromLatestBoundary ==
    (lg.done /\ DistinctTimes(lg.raw)) =>
        \A i \in 1..Len(lg.raw) :
            lg.raw[i].run_num = Null =>
                \E k \in 1..Len(lg.out) :
                    /\ lg.out[k].log_id = lg.raw[i].id
                    /\ lg.out[k].run_number = RunInForceAt(lg.raw, lg.raw[i].insert_time)

\* the case of the claim: t1 (run 1), t2 (none), t3 (run 2), t4 (none) has
\* been transformed to the runs 1, 1, 2, 2
C18_Witness ==
    /\ lg.done
    /\ Len(lg.raw) = 4
    /\ \A i \in 1..4 : lg.raw[i].insert_time = i /\ lg.raw[i].content = <<"beam", "lost">>
    /\ lg.raw[1].run_num = 1
    /\ lg.raw[2].run_num = Null
    /\ lg.raw[3].run_num = 2
    /\ lg.raw[4].run_num = Null
    /\ [k \in 1..4 |-> lg.out[k].run_number] = <<1, 1, 2, 2>>

(* ----------------------- C19: explicit run numbers --------------------- *)
\* C19: every raw entry with an explicit run number appears in the output
\* with exactly that run number, whatever the other entries are, and the
\* output holds exactly one record per raw entry.
C19_ExplicitRunKept ==
    lg.done =>
        /\ Len(lg.out) = Len(lg.raw)
        /\ \A i \in 1..Len(lg.raw) :
              Cardinality({k \in 1..Len(lg.out) : lg.out[k].log_id = lg.raw[i].id}) = 1
        /\ \A i \in 1..Len(lg.raw) :
              lg.raw[i].run_num # Null =>
                  \A k \in 1..Len(lg.out) :
                      lg.out[k].log_id = lg.raw[i].id =>
                          lg.out[k].run_number = lg.raw[i].run_num

\* an entry with explicit run 1 lies between a boundary of run 2 and a
\* later entry, at the time of an announcement of run 2, and keeps run 1
C19_Witness ==
    /\ lg.done
    /\ Len(lg.raw) = MaxEntries
    /\ \E i, j, a \in 1..Len(lg.raw) :
        /\ lg.raw[i].run_num = 1
        /\ lg.raw[j].run_num = 2
        /\ lg.raw[j].insert_time < lg.raw[i].insert_time
        /\ lg.raw[a].run_num = Null
        /\ ParseRunNumber(lg.raw[a].content) = 2
        /\ lg.raw[a].insert_time = lg.raw[i].insert_time
        /\ \E k \in 1..Len(lg.out) :
            lg.out[k].log_id = lg.raw[i].id /\ lg.out[k].run_number = 1

(* ---------------- find_latest_database (database.py 23-43) ------------- *)
MaxMtime == 3

\* the value None of a missing result, written as a name no file has
NoPath == [prefix |-> "", groups |-> <<>>, ext |-> ""]

\* file names, each as its prefix, the groups of characters separated by
\* "_" up to the extension, and the extension
FileNames ==
    {[prefix |-> "elog_", groups |-> <<<<"2","0","2","4">>, <<"0","1","0","1">>, <<"1","2","0","0">>>>, ext |-> ".db"],
     [prefix |-> "elog_", groups |-> <<<<"2","0","2","4">>, <<"0","1","0","2">>, <<"0","9","0","0">>>>, ext |-> ".db"],
     [prefix |-> "elog_", groups |-> <<<<"2","0","2","4">>, <<"0","1","0","1">>>>, ext |-> ".db"],
     [prefix |-> "elog_", groups |-> <<<<"2","0","x","4">>, <<"0","1","0","1">>, <<"1","2","0","0">>>>, ext |-> ".db"],
     [prefix |-> "elog_", groups |-> <<<<"2","0","2","4">>, <<"0","1","0","1">>, <<"1","2","0","0","0">>>>, ext |-> ".db"],
     [prefix |-> "elog_", groups |-> <<<<"2","0","2","4">>, <<"0","1","0","1">>, <<"1","2","0","0">>>>, ext |-> ".db.bak"],
     [prefix |-> "backup_", groups |-> <<<<"2","0","2","4">>, <<"0","1","0","1">>, <<"1","2","0","0">>>>, ext |-> ".db"]}

Digits == {"0", "1", "2", "3", "4", "5", "6", "7", "8", "9"}

\* database.py 36: directory.glob(f"{DB_PREFIX}*.db")
GlobMatches(name) == name.prefix = "elog_" /\ name.ext = ".db"

\* a pattern that accepts every name
AnyName(name) == TRUE
\* config.py 15: DB_PATTERN = ^elog_(\d{4})_(\d{4})_(\d{4})\.db$
PatternMatches(name) ==
    /\ name.prefix = "elog_"
    /\ name.ext = ".db"
    /\ Len(name.groups) = 3
    /\ \A g \in 1..3 :
        /\ Len(name.groups[g]) = 4
        /\ \A c \in 1..4 : name.groups[g][c] \in Digits

\* database.py 35-38: the candidates
Candidates(files) ==
    {f \in files : GlobMatches(f.name) /\ PatternMatches(f.name)}

\* database.py 23-43: the paths find_latest_database may return; max()
\* returns the first of several candidates of equal time in the order of
\* glob(), which is the file system's
FindLatestDatabase(dir) ==
    IF ~dir.exists THEN {NoPath}
    ELSE IF Candidates(dir.files) = {} THEN {NoPath}
    ELSE {f.name : f \in {c \in Candidates(dir.files) :
                            \A o \in Candidates(dir.files) : o.st_mtime <= c.st_mtime}}

InitFind ==
    /\ LockOff
    /\ PipeOff
    /\ sq = <<>>
    /\ db = <<>>
    /\ job = <<>>
    /\ lg = <<>>
    /\ fd = [exists |-> FALSE, files |-> {}, called |-> FALSE, result |-> NoPath]

\* the directory is created
FdMkdir ==
    /\ ~fd.called
    /\ ~fd.exists
    /\ fd' = [fd EXCEPT !.exists = TRUE]
    /\ UNCHANGED <<lockvars, pipevars, sq, db, job, lg>>

\* a file is written into the directory, or written again
FdWriteFile ==
    /\ ~fd.called
    /\ fd.exists
    /\ \E name \in FileNames, t \in 1..MaxMtime :
        fd' = [fd EXCEPT !.files = {f \in @ : f.name # name}
                                   \cup {[name |-> name, st_mtime |-> t]}]
    /\ UNCHANGED <<lockvars, pipevars, sq, db, job, lg>>

\* database.py 23-43: find_latest_database(directory)
FdFind ==
    /\ ~fd.called
    /\ \E path \in FindLatestDatabase(fd) :
        fd' = [fd EXCEPT !.called = TRUE, !.result = path]
    /\ UNCHANGED <<lockvars, pipevars, sq, db, job, lg>>

NextFind ==
    \/ FdMkdir
    \/ FdWriteFile
    \/ FdFind

SpecFind == InitFind /\ [][NextFind]_vars

\* a name of the form elog_DDDD_DDDD_DDDD.db, D a decimal digit
IsElogName(name) ==
    /\ name.prefix = "elog_"
    /\ name.ext = ".db"
    /\ DOMAIN name.groups = 1..3
    /\ \A g \in DOMAIN name.groups :
        /\ DOMAIN name.groups[g] = 1..4
        /\ \A c \in DOMAIN name.groups[g] : name.groups[g][c] \in Digits

\* C20: find_latest_database returns, among the files of the directory
\* named elog_DDDD_DDDD_DDDD.db, one of greatest modification time; a file
\* of another name is never returned; the result is None when the
\* directory does not exist or holds no file of that name.
C20_LatestMatchingFile ==
    fd.called =>
        LET matching == {f \in fd.files : IsElogName(f.name)} IN
        IF ~fd.exists \/ matching = {}
        THEN fd.result = NoPath
        ELSE \E f \in matching :
                /\ fd.result = f.name
                /\ \A o \in matching : o.st_mtime <= f.st_mtime

\* the older of two matching files is passed over, and so is a newer file
\* of another name
C20_Witness ==
    /\ fd.called
    /\ \E f, g, h \in fd.files :
        /\ fd.result = f.name
        /\ IsElogName(g.name)
        /\ g.st_mtime < f.st_mtime
        /\ ~IsElogName(h.name)
        /\ h.name.prefix = "elog_"
        /\ h.name.ext = ".db"
        /\ h.st_mtime > f.st_mtime

(* ------------- the target file of a run (cli.py 159-177) --------------- *)
MaxTicks == 3
MaxRuns == 3
MaxRunRecords == 1

\* the clock counts half minutes
TicksPerMinute == 2

DigitOf(n) ==
    CASE n = 0 -> "0" [] n = 1 -> "1" [] n = 2 -> "2" [] n = 3 -> "3"
      [] n = 4 -> "4" [] n = 5 -> "5" [] n = 6 -> "6" [] n = 7 -> "7"
      [] n = 8 -> "8" [] OTHER -> "9"

\* database.py 17-20: generate_db_name(): strftime("%Y_%m%d_%H%M") keeps the
\* minute and drops the seconds
GenerateDbName(now) ==
    [prefix |-> "elog_",
     groups |-> <<<<"2", "0", "2", "6">>, <<"0", "1", "0", "1">>,
                  <<"1", "2", DigitOf((now \div TicksPerMinute) \div 10),
                    DigitOf((now \div TicksPerMinute) % 10)>>>>,
     ext |-> ".db"]

\* the rows of the file of that name, None when there is no such file
RowsOfFile(files, name) ==
    IF \E f \in files : f.name = name
    THEN (CHOOSE f \in files : f.name = name).rows
    ELSE Null

\* the file of that name written (or written again) at time now
FileWritten(files, name, count, now) ==
    {f \in files : f.name # name} \cup {[name |-> name, st_mtime |-> now, rows |-> count]}

\* shutil.copy2(existing_db, db_path) (cli.py 174): content and
\* modification time of the base
FileCopied(files, base, name) ==
    LET b == CHOOSE f \in files : f.name = base IN
    {f \in files : f.name # name} \cup {[b EXCEPT !.name = name]}

\* sqlite3.connect (database.py 57-59) opens the file of that name if there
\* is one and creates an empty one otherwise; _create_tables adds no row
FileOpened(files, name, now) ==
    IF RowsOfFile(files, name) # Null THEN files
    ELSE FileWritten(files, name, 0, now)

InitTarget ==
    /\ LockOff
    /\ PipeOff
    /\ sq = <<>>
    /\ db = <<>>
    /\ job = <<>>
    /\ lg = <<>>
    /\ fd = [exists |-> TRUE, files |-> {}, now |-> 0, runs |-> 0,
             phase |-> "idle", mode |-> "none", path |-> NoPath,
             base |-> NoPath, opened_rows |-> 0, written |-> 0, copy_error |-> FALSE]

\* time passes
TgTick ==
    /\ fd.now < MaxTicks
    /\ fd' = [fd EXCEPT !.now = @ + 1]
    /\ UNCHANGED <<lockvars, pipevars, sq, db, job, lg>>

\* cli.py 159-177 and 190: a fresh run: the name is generated and the
\* writer opens the store
TgStartFresh ==
    /\ fd.phase = "idle"
    /\ fd.runs < MaxRuns
    /\ LET name == GenerateDbName(fd.now)
           files == FileOpened(fd.files, name, fd.now)
       IN  fd' = [fd EXCEPT !.runs = @ + 1, !.phase = "opened", !.mode = "none",
                            !.path = name, !.base = NoPath, !.files = files,
                            !.opened_rows = RowsOfFile(files, name),
                            !.written = 0, !.copy_error = FALSE]
    /\ UNCHANGED <<lockvars, pipevars, sq, db, job, lg>>

\* cli.py 159-177 and 190: an incremental run with incremental = "AUTO":
\* the latest artifact, if any, is copied to the new name (copying a file
\* onto itself raises shutil.SameFileError), then the writer opens the store
TgStartAuto ==
    /\ fd.phase = "idle"
    /\ fd.runs < MaxRuns
    /\ LET name == GenerateDbName(fd.now) IN
       \E base \in FindLatestDatabase(fd) :
          IF base # NoPath /\ base = name
          THEN fd' = [fd EXCEPT !.runs = @ + 1, !.mode = "AUTO", !.path = name,
                                !.base = base, !.copy_error = TRUE]
          ELSE LET copied == IF base # NoPath THEN FileCopied(fd.files, base, name)
                             ELSE fd.files
                   files == FileOpened(copied, name, fd.now)
               IN  fd' = [fd EXCEPT !.runs = @ + 1, !.phase = "opened", !.mode = "AUTO",
                                    !.path = name, !.base = base, !.files = files,
                                    !.opened_rows = RowsOfFile(files, name),
                                    !.written = 0, !.copy_error = FALSE]
    /\ UNCHANGED <<lockvars, pipevars, sq, db, job, lg>>

\* cli.py 206-230: a record is written to the store
TgWrite ==
    /\ fd.phase \in {"opened", "writing"}
    /\ fd.written < MaxRunRecords
    /\ fd' = [fd EXCEPT !.phase = "writing", !.written = @ + 1,
                        !.files = FileWritten(@, fd.path,
                                              RowsOfFile(@, fd.path) + 1, fd.now)]
    /\ UNCHANGED <<lockvars, pipevars, sq, db, job, lg>>

\* cli.py 249-252: the writer ends: Metadata is written and the store closed
TgFinish ==
    /\ fd.phase \in {"opened", "writing"}
    /\ fd' = [fd EXCEPT !.phase = "idle",
                        !.files = FileWritten(@, fd.path, RowsOfFile(@, fd.path), fd.now)]
    /\ UNCHANGED <<lockvars, pipevars, sq, db, job, lg>>

NextTarget ==
    \/ TgTick
    \/ TgStartFresh
    \/ TgStartAuto
    \/ TgWrite
    \/ TgFinish

SpecTarget == InitTarget /\ [][NextTarget]_vars

\* C21: in fresh mode, and in incremental mode when no prior artifact is
\* found, the store the writer opens holds no row before the first record
\* is processed, whatever the directory holds and whenever the run starts.
C21_FreshStoreIsEmpty ==
    (fd.phase = "opened" /\ (fd.mode = "none" \/ fd.base = NoPath))
        => fd.opened_rows = 0


(* ------------- the failure list and retry (cli.py 302-313, 493-529) ---- *)
\* cli.py 511: retry reads the identifiers to fetch from the entries of
\* failed_experiments.json, in file order
RetryExperiments(file) == [i \in 1..Len(file) |-> file[i].experiment_id]

\* the experiments of the run whose fetch raised (their error result is with
\* a worker, in the queue, or recorded by the writer) or whose write raised
\* (recorded by the writer)
RunFailures ==
    {whold[w].experiment_id : w \in {x \in WorkerIds : whold[x] # NoRecord /\ whold[x].kind = "error"}}
    \cup {data_queue[i].experiment_id :
            i \in {j \in 1..Len(data_queue) :
                     data_queue[j] # Sentinel /\ data_queue[j].kind = "error"}}
    \cup {failed_experiments[i].experiment_id : i \in 1..Len(failed_experiments)}

\* C22: after a run in which at least one experiment failed, the failure
\* file holds exactly one entry per failed experiment of that run and none
\* for another one, so that a following retry fetches exactly the failed
\* identifiers.
C22_FailureFileListsRunFailures ==
    (mpc = "exited" /\ RunFailures # {}) =>
        /\ Len(failed_file) = Cardinality(RunFailures)
        /\ {RetryExperiments(failed_file)[i] : i \in 1..Len(failed_file)} = RunFailures


(* ------------- authentication (client.py 52-74, cli.py 258-275) -------- *)
\* C23: an authentication failure is fatal: it is never turned into a
\* per-experiment error result, so no record of it is held for the queue,
\* queued, or listed by the writer among the failed experiments.
C23_AuthFailureIsFatal ==
    /\ \A w \in WorkerIds :
          whold[w].error = "AuthenticationError" => wpc[w] = "raised"
    /\ \A i \in 1..Len(data_queue) : data_queue[i].error # "AuthenticationError"
    /\ \A i \in 1..Len(failed_experiments) :
          failed_experiments[i].error # "AuthenticationError"


(* ------------- arrival order of the records (cli.py 277-292) ----------- *)
MaxOrderLen == 3

\* a third experiment id, "8", next to "7" and "7_1"
OrderKeys == ExpKeys \cup {<<8>>}

\* the per-experiment outcomes: the fetch raised (cli.py 270-272), or it
\* returned a record with these facets and the write went through
\* (fault 0) or raised at the insert of the fault-th facet (232-239)
FetchChoices == {AllFacets, {"logbook", "runtable", "workflow"}}
FaultChoices == {0, 2, 4}
Outcomes ==
    {[kind |-> "error", facets |-> {}, fault |-> 0]}
    \cup {[kind |-> "data", facets |-> F, fault |-> k] :
            F \in FetchChoices, k \in FaultChoices}

\* the lists of distinct experiment ids
Distinct(s) ==
    \A i, j \in 1..Len(s) : i # j => s[i] # s[j]
OrderLists ==
    {l \in UNION {[1..k -> OrderKeys] : k \in 1..MaxOrderLen} : Distinct(l)}

\* database.py 568-579 when the insert of the k-th facet raises: the
\* facets before it are written and nothing is rolled back (cli.py 232-239)
DbInsertInterrupted(d, data, k) ==
    DbInsertExperimentBatch(d,
        [data EXCEPT !.facets = @ \cap {InsertOrder[i] : i \in 1..(k - 1)}])

\* cli.py 206-241: the writer's treatment of one dequeued record with
\* outcome o: the store, and whether the experiment counts as succeeded
WriterHandles(d, e, o, inc) ==
    IF o.kind = "error" THEN [d |-> d, ok |-> FALSE]
    ELSE LET data == [experiment_id |-> e, facets |-> o.facets]
             d0 == IF inc THEN DeleteExperimentRows(d, e) ELSE d
         IN  IF o.fault = 0
             THEN [d |-> DbInsertExperimentBatch(d0, data), ok |-> TRUE]
             ELSE [d |-> DbInsertInterrupted(d0, data, o.fault), ok |-> FALSE]

\* the rows of the store with every surrogate key (run_id, detector_id,
\* log_id, run_data_id, workflow_id) replaced by what it stands for
RunKeyOf(d, id) ==
    IF \E r \in d.run : r.run_id = id
    THEN LET r == CHOOSE x \in d.run : x.run_id = id IN
         <<r.experiment_id, r.run_number>>
    ELSE <<>>
DetectorNameOf(d, id) ==
    IF \E x \in d.det : x.detector_id = id
    THEN (CHOOSE x \in d.det : x.detector_id = id).detector_name
    ELSE ""
UpToSurrogateKeys(d) ==
    [exp |-> d.exp,
     run |-> {<<r.experiment_id, r.run_number>> : r \in d.run},
     rpd |-> {[run |-> RunKeyOf(d, x.run_id), n_events |-> x.n_events,
               n_damaged |-> x.n_damaged, number_of_files |-> x.number_of_files] :
                x \in d.rpd},
     det |-> {x.detector_name : x \in d.det},
     rundet |-> {<<RunKeyOf(d, x.run_id), DetectorNameOf(d, x.detector_id)>> :
                   x \in d.rundet},
     logbook |-> {<<l.experiment_id, RunKeyOf(d, l.run_id),
                    Cardinality({m \in d.logbook :
                        m.experiment_id = l.experiment_id /\ m.run_id = l.run_id})>> :
                    l \in d.logbook},
     quest |-> d.quest,
     wf |-> {<<w.experiment_id,
               Cardinality({v \in d.wf : v.experiment_id = w.experiment_id})>> :
               w \in d.wf},
     meta |-> d.meta]

\* what a run ends with
RunResult(d, succeeded, failed) ==
    [store |-> UpToSurrogateKeys(d), succeeded |-> succeeded, failed |-> failed]

InitOrder ==
    /\ LockOff
    /\ PipeOff
    /\ sq = <<>>
    /\ lg = <<>>
    /\ fd = <<>>
    /\ \E inc \in BOOLEAN, l \in OrderLists :
       \E base \in (IF inc THEN {DbEmpty, FullBase} ELSE {DbEmpty}),
          o \in [{l[i] : i \in 1..Len(l)} -> Outcomes] :
         /\ db = OpenExisting(base)
         /\ job = [list |-> l, outcome |-> o, inc |-> inc, base |-> base,
                   P |-> 1, arrived |-> <<>>, succeeded |-> {}, failed |-> {},
                   phase |-> "write", serial |-> <<>>]

\* cli.py 289-292 (parallel_jobs <= 1): the records arrive in list order
OrArriveSerial ==
    /\ job.phase = "write"
    /\ job.P = 1
    /\ Len(job.arrived) < Len(job.list)
    /\ LET e == job.list[Len(job.arrived) + 1]
           h == WriterHandles(db, e, job.outcome[e], job.inc)
       IN /\ db' = h.d
          /\ job' = [job EXCEPT !.arrived = Append(@, e),
                         !.succeeded = IF h.ok THEN @ \cup {e} ELSE @,
                         !.failed = IF h.ok THEN @ ELSE @ \cup {e}]
    /\ UNCHANGED <<lockvars, pipevars, sq, lg, fd>>

\* cli.py 278-287 (parallel_jobs > 1): the records arrive in the order in
\* which the pool's workers put them, which is any order
OrArrivePool ==
    /\ job.phase = "write"
    /\ job.P > 1
    /\ \E e \in {job.list[i] : i \in 1..Len(job.list)} :
        /\ \A i \in 1..Len(job.arrived) : job.arrived[i] # e
        /\ LET h == WriterHandles(db, e, job.outcome[e], job.inc) IN
            /\ db' = h.d
            /\ job' = [job EXCEPT !.arrived = Append(@, e),
                           !.succeeded = IF h.ok THEN @ \cup {e} ELSE @,
                           !.failed = IF h.ok THEN @ ELSE @ \cup {e}]
    /\ UNCHANGED <<lockvars, pipevars, sq, lg, fd>>

\* cli.py 243-252: the writer ends the run; the run with a pool then starts
\* from the same base
OrFinalize ==
    /\ job.phase = "write"
    /\ Len(job.arrived) = Len(job.list)
    /\ IF job.P = 1
       THEN /\ db' = OpenExisting(job.base)
            /\ job' = [job EXCEPT !.P = 2, !.arrived = <<>>, !.succeeded = {},
                           !.failed = {},
                           !.serial = RunResult(Finalized(db), job.succeeded, job.failed)]
       ELSE /\ db' = Finalized(db)
            /\ job' = [job EXCEPT !.phase = "done"]
    /\ UNCHANGED <<lockvars, pipevars, sq, lg, fd>>

NextOrder ==
    \/ OrArriveSerial
    \/ OrArrivePool
    \/ OrFinalize

SpecOrder == InitOrder /\ [][NextOrder]_vars

FetchCalls ==
    <<"info", "logbook", "runtable", "file_manager", "questionnaire", "workflow">>

InitFetch ==
    /\ LockOff
    /\ PipeOff
    /\ sq = <<>>
    /\ db = <<>>
    /\ job = <<>>
    /\ fd = <<>>
    /\ \E e \in ExpIds, R \in SUBSET {FetchCalls[i] : i \in 1..Len(FetchCalls)} :
         lg = [exp_id |-> e, raising |-> R, invoked |-> <<>>, pc |-> "try",
               data |-> NoRecord, queue |-> <<>>]

\* cli.py 260-269: the next fetch call of the dict display is made and
\* returns; after the last one the record is complete
FqCallReturns ==
    /\ lg.pc = "try"
    /\ Len(lg.invoked) < Len(FetchCalls)
    /\ LET c == FetchCalls[Len(lg.invoked) + 1] IN
        /\ c \notin lg.raising
        /\ lg' = [lg EXCEPT
                    !.invoked = Append(@, c),
                    !.pc = IF Len(lg.invoked) + 1 = Len(FetchCalls) THEN "put" ELSE "try",
                    !.data = IF Len(lg.invoked) + 1 = Len(FetchCalls)
                             THEN DataRecord(lg.exp_id, AllFacets) ELSE @]
    /\ UNCHANGED <<lockvars, pipevars, sq, db, job, fd>>

\* cli.py 270-272: the next fetch call is made and raises: the except
\* clause builds the error result
FqCallRaises ==
    /\ lg.pc = "try"
    /\ Len(lg.invoked) < Len(FetchCalls)
    /\ LET c == FetchCalls[Len(lg.invoked) + 1] IN
        /\ c \in lg.raising
        /\ lg' = [lg EXCEPT !.invoked = Append(@, c), !.pc = "put",
                            !.data = ErrorRecord(lg.exp_id, c)]
    /\ UNCHANGED <<lockvars, pipevars, sq, db, job, fd>>

\* cli.py 274-275: data_queue.put(data); return exp_id
FqPut ==
    /\ lg.pc = "put"
    /\ lg' = [lg EXCEPT !.queue = Append(@, lg.data), !.pc = "returned"]
    /\ UNCHANGED <<lockvars, pipevars, sq, db, job, fd>>

NextFetch ==
    \/ FqCallReturns
    \/ FqCallRaises
    \/ FqPut

SpecFetch == InitFetch /\ [][NextFetch]_vars

\* C25: for every experiment handled by a fetch worker, all six
\* per-endpoint fetch calls have been invoked when the worker returns, also
\* when an earlier one raised.
C25_AllSixCallsInvoked ==
    lg.pc = "returned" => lg.invoked = FetchCalls


(* ------------- leaving the poll loop (cli.py 195-204, 294-297) --------- *)
\* the writer is past its poll loop
WriterPastLoop == tpc \in {"final_commit", "finally", "terminated", "finalize_failed"}

\* C26: the writer is past its poll loop only when it has dequeued the
\* sentinel: the sentinel has been put and is no longer in the queue.
C26_LoopLeftOnlyOnSentinel ==
    WriterPastLoop =>
        /\ n_sentinel > 0
        /\ \A i \in 1..Len(data_queue) : data_queue[i] # Sentinel


(* ------------- the lock and the store handle (cli.py 127-131, 254-300) - *)
\* C27: the directory lock covers the whole life of the store handle: the
\* store is open only while the command holds the lock, and once the
\* command has left the lock's scope after starting the writer, the writer
\* has written both Metadata keys and closed the store.
C27_LockCoversStoreHandle ==
    /\ conn = "open" => dir_lock = CmdProc
    /\ (mpc = "exited" /\ tpc # "not_started") =>
          /\ conn = "closed"
          /\ {"last_update", "hours_lookback"} \subseteq metadata


(* ------------- the Metadata table (database.py 176-179, 581-600) ------- *)
MaxMetaCalls == 4

MetaKeys == {"last_update", "hours_lookback", "version"}
MetaValues == {"2024-01-15", "2024-01-16"}

\* what get_metadata returns: a str or None
PyNone == [none |-> TRUE, str |-> ""]
PyStr(s) == [none |-> FALSE, str |-> s]

\* INSERT INTO Metadata ... ON CONFLICT DO NOTHING: the old row stays
MetadataInsertOrIgnore(table, key, value) ==
    IF \E r \in table : r.key = key THEN table
    ELSE table \cup {[key |-> key, value |-> value]}

\* database.py 586-591: INSERT OR REPLACE INTO Metadata (key, value): the
\* row that conflicts on the primary key (177) is deleted, the new row is
\* inserted
MetadataInsertOrReplace(table, key, value) ==
    {r \in table : r.key # key} \cup {[key |-> key, value |-> value]}

\* database.py 593-600: SELECT value FROM Metadata WHERE key = ?;
\* fetchone(); result[0] if result else None
GetMetadata(table, key) ==
    LET result == {r \in table : r.key = key} IN
    IF result # {} THEN PyStr((CHOOSE r \in result : TRUE).value) ELSE PyNone

\* the value of the most recent set_metadata(key, v) of a sequence of
\* calls, None when there is none
RECURSIVE LastSet(_, _)
LastSet(calls, key) ==
    IF calls = <<>> THEN PyNone
    ELSE IF calls[Len(calls)].key = key THEN PyStr(calls[Len(calls)].value)
    ELSE LastSet(SubSeq(calls, 1, Len(calls) - 1), key)

NoGot == [key |-> "", result |-> PyNone, at |-> 0]

\* database.py 176-179 on a new file: the table is empty
InitMeta ==
    /\ LockOff
    /\ PipeOff
    /\ sq = <<>>
    /\ db = <<>>
    /\ lg = <<>>
    /\ fd = <<>>
    /\ job = [table |-> {}, calls |-> <<>>, got |-> NoGot]

\* database.py 581-584: set_metadata(key, value)
MdSetMetadata ==
    /\ Len(job.calls) < MaxMetaCalls
    /\ \E k \in MetaKeys, v \in MetaValues :
         job' = [job EXCEPT !.table = MetadataInsertOrReplace(@, k, v),
                            !.calls = Append(@, [key |-> k, value |-> v])]
    /\ UNCHANGED <<lockvars, pipevars, sq, db, lg, fd>>

\* database.py 593-600: get_metadata(key)
MdGetMetadata ==
    /\ \E k \in MetaKeys :
         job' = [job EXCEPT !.got = [key |-> k, result |-> GetMetadata(job.table, k),
                                      at |-> Len(job.calls)]]
    /\ UNCHANGED <<lockvars, pipevars, sq, db, lg, fd>>

NextMeta ==
    \/ MdSetMetadata
    \/ MdGetMetadata

SpecMeta == InitMeta /\ [][NextMeta]_vars

\* C28: after any sequence of set_metadata calls the Metadata table holds
\* at most one row per key, and get_metadata(k) returns the value of the
\* most recent set_metadata(k, v), None for a key never set; so setting one
\* key leaves the value of every other key as it was.
C28_MetadataLastValuePerKey ==
    /\ \A k \in MetaKeys : Cardinality({r \in job.table : r.key = k}) <= 1
    /\ \A k \in MetaKeys : GetMetadata(job.table, k) = LastSet(job.calls, k)
    /\ job.got # NoGot =>
          job.got.result = LastSet(SubSeq(job.calls, 1, job.got.at), job.got.key)

\* a key was set twice with different values, another key was set between
\* the two, a third never; get_metadata has returned the second value
C28_Witness ==
    /\ \E i, j, m \in 1..Len(job.calls) :
          /\ i < m /\ m < j
          /\ job.calls[i].key = job.calls[j].key
          /\ job.calls[i].value # job.calls[j].value
          /\ job.calls[m].key # job.calls[i].key
          /\ job.got.key = job.calls[j].key
          /\ job.got.at >= j
          /\ job.got.result = PyStr(job.calls[j].value)
          /\ \A n \in (j + 1)..Len(job.calls) : job.calls[n].key # job.calls[j].key
    /\ \E k \in MetaKeys : GetMetadata(job.table, k) = PyNone


(* ------------- Config.load (config.py 18-111) -------------------------- *)
\* config.py 22-35: the fields of the dataclass that hold a number, with
\* their defaults
ConfigDefaults ==
    [hours_lookback |-> 168, parallel_jobs |-> 10, lock_timeout |-> 60]

\* the keys a config file may carry, the environment variables, and the
\* keys of cli_args that update builds (cli.py 76-90); a source gives a key
\* its own value (1 in the file, 2 in the environment, 3 in cli_args) or
\* does not have it
FileKeys == {"hours_lookback", "parallel_jobs", "lock_timeout", "queue_size",
             "batch_commit_size"}
EnvKeys == {"FETCH_ELOG_HOURS_LOOKBACK", "FETCH_ELOG_PARALLEL_JOBS",
            "FETCH_ELOG_LOCK_TIMEOUT"}
CliKeys == {"hours", "parallel_jobs", "queue_size", "batch_commit_size"}

\* dict.get / "in": Null when the key is absent
Lookup(source, key) == IF key \in DOMAIN source THEN source[key] ELSE Null
Has(source, key) == Lookup(source, key) # Null

\* setattr on the dataclass instance
SetField(config, name, value) ==
    [f \in DOMAIN config \cup {name} |-> IF f = name THEN value ELSE config[f]]

\* config.py 60-79: _merge_yaml
MergeYaml(config, data) ==
    LET c1 == IF Has(data, "hours_lookback")
              THEN SetField(config, "hours_lookback", data["hours_lookback"]) ELSE config
        c2 == IF Has(data, "parallel_jobs")
              THEN SetField(c1, "parallel_jobs", data["parallel_jobs"]) ELSE c1
    IN  IF Has(data, "lock_timeout")
        THEN SetField(c2, "lock_timeout", data["lock_timeout"]) ELSE c2

\* config.py 82-97: _merge_env
MergeEnv(config, environ) ==
    LET c1 == IF Has(environ, "FETCH_ELOG_HOURS_LOOKBACK")
              THEN SetField(config, "hours_lookback", environ["FETCH_ELOG_HOURS_LOOKBACK"])
              ELSE config
        c2 == IF Has(environ, "FETCH_ELOG_PARALLEL_JOBS")
              THEN SetField(c1, "parallel_jobs", environ["FETCH_ELOG_PARALLEL_JOBS"])
              ELSE c1
    IN  IF Has(environ, "FETCH_ELOG_LOCK_TIMEOUT")
        THEN SetField(c2, "lock_timeout", environ["FETCH_ELOG_LOCK_TIMEOUT"]) ELSE c2

\* config.py 100-111: _merge_cli
MergeCli(config, cli_args) ==
    LET c1 == IF Has(cli_args, "hours")
              THEN SetField(config, "hours_lookback", cli_args["hours"]) ELSE config
    IN  IF Has(cli_args, "parallel_jobs")
        THEN SetField(c1, "parallel_jobs", cli_args["parallel_jobs"]) ELSE c1

\* the partial maps over a set of keys, every key present having value v
SourcesOver(keys, v) == UNION {[K -> {v}] : K \in SUBSET keys}

\* config.py 44: config = cls()
InitConfig ==
    /\ LockOff
    /\ PipeOff
    /\ sq = <<>>
    /\ db = <<>>
    /\ lg = <<>>
    /\ fd = <<>>
    /\ \E data \in SourcesOver(FileKeys, 1),
          environ \in SourcesOver(EnvKeys, 2),
          cli_args \in SourcesOver(CliKeys, 3) :
         job = [data |-> data, environ |-> environ, cli_args |-> cli_args,
                config |-> ConfigDefaults, pc |-> "file"]

\* config.py 46-48
CfMergeYaml ==
    /\ job.pc = "file"
    /\ job' = [job EXCEPT !.config = MergeYaml(@, job.data), !.pc = "env"]
    /\ UNCHANGED <<lockvars, pipevars, sq, db, lg, fd>>

\* config.py 50-51
CfMergeEnv ==
    /\ job.pc = "env"
    /\ job' = [job EXCEPT !.config = MergeEnv(@, job.environ), !.pc = "cli"]
    /\ UNCHANGED <<lockvars, pipevars, sq, db, lg, fd>>

\* config.py 53-57
CfMergeCli ==
    /\ job.pc = "cli"
    /\ job' = [job EXCEPT !.config = MergeCli(@, job.cli_args), !.pc = "loaded"]
    /\ UNCHANGED <<lockvars, pipevars, sq, db, lg, fd>>

NextConfig ==
    \/ CfMergeYaml
    \/ CfMergeEnv
    \/ CfMergeCli

SpecConfig == InitConfig /\ [][NextConfig]_vars

\* where each setting comes from in each source, and its default
SettingSources ==
    [hours_lookback |-> [cli |-> "hours", env |-> "FETCH_ELOG_HOURS_LOOKBACK",
                         dflt |-> 168],
     parallel_jobs |-> [cli |-> "parallel_jobs", env |-> "FETCH_ELOG_PARALLEL_JOBS",
                        dflt |-> 10],
     lock_timeout |-> [cli |-> "lock_timeout", env |-> "FETCH_ELOG_LOCK_TIMEOUT",
                       dflt |-> 60],
     queue_size |-> [cli |-> "queue_size", env |-> "FETCH_ELOG_QUEUE_SIZE",
                     dflt |-> 100],
     batch_commit_size |-> [cli |-> "batch_commit_size",
                            env |-> "FETCH_ELOG_BATCH_COMMIT_SIZE", dflt |-> 50]]

\* CLI > env > config file > default
ByPrecedence(s) ==
    LET src == SettingSources[s] IN
    IF Has(job.cli_args, src.cli) THEN job.cli_args[src.cli]
    ELSE IF Has(job.environ, src.env) THEN job.environ[src.env]
    ELSE IF Has(job.data, s) THEN job.data[s]
    ELSE src.dflt

\* C29: the configuration that Config.load returns has every setting,
\* queue_size (default 100) and batch_commit_size (default 50) included,
\* with the value given by the precedence CLI > env > config file > default.
C29_LoadFollowsPrecedence ==
    job.pc = "loaded" =>
        \A s \in DOMAIN SettingSources :
            /\ s \in DOMAIN job.config
            /\ job.config[s] = ByPrecedence(s)


(* ------------- _filter_experiments (api/experiments.py 58-91) ---------- *)
MaxIdLen == 2
MaxPatternLen == 2
MaxFilterList == 2

\* the characters of experiment ids and of exclude patterns; a string is
\* the sequence of its characters
IdChars == {"a", "A", "b"}
PatternChars == {"a", "B", "*", "?", "."}
StringsOver(chars, n) == UNION {[1..k -> chars] : k \in 0..n}
ListsOver(items, n) == UNION {[1..k -> items] : k \in 0..n}

\* str.replace(old, new) for a one-character old
RECURSIVE Replace(_, _, _)
Replace(s, old, new) ==
    IF s = <<>> THEN <<>>
    ELSE (IF Head(s) = old THEN new ELSE <<Head(s)>>) \o Replace(Tail(s), old, new)

\* experiments.py 78: pattern.replace("*", ".*").replace("?", ".")
RegexPattern(pattern) == Replace(Replace(pattern, "*", <<".", "*">>), "?", <<".">>)

\* re.IGNORECASE on the letters used
LowerCase(c) ==
    CASE c = "A" -> "a"
      [] c = "B" -> "b"
      [] OTHER -> c

\* one character against one regex atom: "." is any character, any other
\* atom is itself
AtomMatches(atom, c) == atom = "." \/ LowerCase(atom) = LowerCase(c)

\* experiments.py 79: re.match(f"^{regex_pattern}$", exp, re.IGNORECASE):
\* an atom followed by "*" matches any number of times
RECURSIVE ReMatch(_, _)
ReMatch(regex, s) ==
    IF regex = <<>> THEN s = <<>>
    ELSE IF Len(regex) >= 2 /\ regex[2] = "*"
    THEN \/ ReMatch(SubSeq(regex, 3, Len(regex)), s)
         \/ s # <<>> /\ AtomMatches(regex[1], Head(s)) /\ ReMatch(regex, Tail(s))
    ELSE s # <<>> /\ AtomMatches(regex[1], Head(s)) /\ ReMatch(Tail(regex), Tail(s))

\* experiments.py 74-85: the loop over the experiments
RECURSIVE FilterExperiments(_, _)
FilterExperiments(exps, exclude_patterns) ==
    IF exps = <<>> THEN <<>>
    ELSE LET exclude == \E i \in 1..Len(exclude_patterns) :
                            ReMatch(RegexPattern(exclude_patterns[i]), Head(exps))
         IN  (IF exclude THEN <<>> ELSE <<Head(exps)>>)
             \o FilterExperiments(Tail(exps), exclude_patterns)

InitFilter ==
    /\ LockOff
    /\ PipeOff
    /\ sq = <<>>
    /\ db = <<>>
    /\ lg = <<>>
    /\ fd = <<>>
    /\ \E exps \in ListsOver(StringsOver(IdChars, MaxIdLen) \ {<<>>}, MaxFilterList),
          pats \in ListsOver(StringsOver(PatternChars, MaxPatternLen) \ {<<>>},
                             MaxFilterList) :
         job = [experiments |-> exps, exclude_patterns |-> pats, pc |-> "call",
                filtered |-> <<>>]

\* experiments.py 58-91
FlFilterExperiments ==
    /\ job.pc = "call"
    /\ job' = [job EXCEPT !.filtered = FilterExperiments(job.experiments,
                                                         job.exclude_patterns),
                          !.pc = "returned"]
    /\ UNCHANGED <<lockvars, pipevars, sq, db, lg, fd>>

NextFilter == FlFilterExperiments

SpecFilter == InitFilter /\ [][NextFilter]_vars

\* a shell-style pattern against a whole id: "*" is any sequence of
\* characters, "?" exactly one character, any other character itself,
\* letters compared without case
RECURSIVE ShellMatch(_, _)
ShellMatch(pattern, s) ==
    IF pattern = <<>> THEN s = <<>>
    ELSE IF Head(pattern) = "*"
    THEN \E k \in 0..Len(s) : ShellMatch(Tail(pattern), SubSeq(s, k + 1, Len(s)))
    ELSE /\ s # <<>>
         /\ Head(pattern) = "?" \/ LowerCase(Head(pattern)) = LowerCase(Head(s))
         /\ ShellMatch(Tail(pattern), Tail(s))

MatchesNone(exp) ==
    \A i \in 1..Len(job.exclude_patterns) : ~ShellMatch(job.exclude_patterns[i], exp)

\* C30: _filter_experiments returns exactly the experiments that match none
\* of the patterns, in their original order, a pattern being matched
\* without case against the whole id with "*" any sequence and "?" exactly
\* one character; with no pattern the input is returned unchanged.
C30_FilterKeepsUnmatched ==
    job.pc = "returned" =>
        /\ job.filtered = SelectSeq(job.experiments, MatchesNone)
        /\ job.exclude_patterns = <<>> => job.filtered = job.experiments

\* patterns whose characters are letters, "*" and "?" only
C30_PlainPatterns ==
    (job.pc = "returned" /\
     \A i \in 1..Len(job.exclude_patterns) :
        \A j \in 1..Len(job.exclude_patterns[i]) : job.exclude_patterns[i][j] # ".")
    => job.filtered = SelectSeq(job.experiments, MatchesNone)


(* ------------- termination of _do_update (cli.py 187-300) -------------- *)
\* a put (cli.py 274 or 296) that waits on a full queue
PutBlocked ==
    /\ ~CanPut(data_queue, cfg.queue_size)
    /\ \/ \E w \in Workers : wpc[w] = "holding"
       \/ mpc = "put_sentinel"

\* C31: every run of _do_update terminates: no fetch worker and no sentinel
\* put stays blocked forever on a full queue, that is, no put waits on a
\* full queue whose only consumer, the writer thread, has ended.
C31_NoPutBlockedForever ==
    ~(PutBlocked /\ tpc \in WriterEnded)


(* ------------- the run's aggregates (cli.py 184-241, 294-313) ---------- *)
\* the identifiers listed in failed_experiments
FailedIds == {failed_experiments[i].experiment_id : i \in 1..Len(failed_experiments)}

\* C32: whenever _do_update returns normally for a list of N experiments,
\* success_count plus the number of entries of failed_experiments is N and
\* every experiment of the list is either listed as failed, once, or not
\* at all, also when the writer thread ended before processing records.
C32_EveryExperimentAccounted ==
    (mpc = "exited" /\ raised = "none" /\ tpc # "not_started") =>
        /\ success_count + Len(failed_experiments) = Len(experiments)
        /\ Cardinality(FailedIds) = Len(failed_experiments)
        /\ summary = <<[succeeded |-> Len(experiments) - Cardinality(FailedIds),
                        failed |-> Cardinality(FailedIds)]>>


(* ------------- a failed write in incremental mode (cli.py 218-245) ----- *)
\* the writer has just recorded a write failure
WriteFailureRecorded ==
    /\ Len(failed_experiments') = Len(failed_experiments) + 1
    /\ failed_experiments'[Len(failed_experiments')].error = "write_error"

\* C33: in incremental mode, when the write of an experiment's record
\* fails, the store is left, for that experiment, as it was before the
\* record was processed: its rows are those it had, and what is committed
\* for it is what was committed before.
C33_FailedWriteLeavesExperiment ==
    [][(Truthy(incremental) /\ WriteFailureRecorded) =>
         LET e == failed_experiments'[Len(failed_experiments')].experiment_id IN
         /\ rows'[e] = rows[e]
         /\ durable'[e] = durable[e]]_vars


(* ------------- wholesale replacement of Logbook rows ------------------- *)
\* the Logbook rows of experiment e
LogbookOfExperiment(d, e) == {l \in d.logbook : l.experiment_id = e}

\* the run number a Logbook row points to, None for a row without run
LogbookRunNumber(d, l) ==
    IF l.run_id = Null THEN Null
    ELSE IF \E r \in d.run : r.run_id = l.run_id
         THEN (CHOOSE r \in d.run : r.run_id = l.run_id).run_number
         ELSE Null

\* C34: after a fetch of experiment e has been written through
\* insert_logbook, the Logbook rows of e are exactly the entries of that
\* fetch, also when the fetch returned no entry, and the Logbook rows of
\* other experiments are unchanged.
C34_LogbookReplacedWholesale ==
    [][(job'.last.op = "insert_logbook" /\ job'.ops = job.ops + 1) =>
         LET e == job'.last.e
             entries == job'.last.arg
         IN /\ Cardinality(LogbookOfExperiment(db', e)) = Len(entries)
            /\ \A n \in RunNumbers \cup {Null} :
                 Cardinality({l \in LogbookOfExperiment(db', e) :
                                 LogbookRunNumber(db', l) = n})
                   = Cardinality({i \in 1..Len(entries) : entries[i] = n})
            /\ db'.logbook \ LogbookOfExperiment(db', e)
                 = db.logbook \ LogbookOfExperiment(db, e)]_vars


(* ------------- wholesale replacement of Questionnaire and Workflow ----- *)
QuestionnaireOfExperiment(d, e) == {q \in d.quest : q.experiment_id = e}
WorkflowOfExperiment(d, e) == {w \in d.wf : w.experiment_id = e}

\* C35: after insert_questionnaire the Questionnaire rows of the
\* experiment are exactly the fields of the call, one row per field_id,
\* and after insert_workflow its Workflow rows are exactly the workflows of
\* the call; no row of an earlier write for the experiment survives and
\* the rows of other experiments are unchanged.
C35_QuestionnaireWorkflowReplaced ==
    [][job'.ops = job.ops + 1 =>
         LET e == job'.last.e
             arg == job'.last.arg
         IN /\ job'.last.op = "insert_questionnaire" =>
                 /\ {q.field_id : q \in QuestionnaireOfExperiment(db', e)}
                      = {arg[i] : i \in 1..Len(arg)}
                 /\ \A q, r \in QuestionnaireOfExperiment(db', e) :
                      q.field_id = r.field_id => q = r
                 /\ \A q \in QuestionnaireOfExperiment(db', e) :
                      /\ q.field_value \in 1..Len(arg)
                      /\ arg[q.field_value] = q.field_id
                 /\ db'.quest \ QuestionnaireOfExperiment(db', e)
                      = db.quest \ QuestionnaireOfExperiment(db, e)
            /\ job'.last.op = "insert_workflow" =>
                 /\ Cardinality(WorkflowOfExperiment(db', e)) = arg
                 /\ WorkflowOfExperiment(db', e) \cap db.wf = {}
                 /\ db'.wf \ WorkflowOfExperiment(db', e)
                      = db.wf \ WorkflowOfExperiment(db, e)]_vars

\* an experiment whose questionnaire and workflows were written before has
\* just had its questionnaire written again, with a field_id given twice,
\* while another experiment holds rows of its own
C35_Witness ==
    /\ job.last.op = "insert_questionnaire"
    /\ job.ops = MaxStoreOps
    /\ Len(job.last.arg) > Cardinality(QuestionnaireOfExperiment(db, job.last.e))
    /\ QuestionnaireOfExperiment(db, job.last.e) # {}
    /\ \E q \in db.quest : q.experiment_id # job.last.e
    /\ db.seq_wf > 0


(* ------------- coalescing writes never replace a value ----------------- *)
\* C36: a coalescing write to RunProductionData changes only columns that
\* are null: over any insert_runtable or insert_file_manager write, a
\* column of a row that holds a non-null value holds the same value
\* afterwards, also when the write supplies another non-null value for it.
C36_NonNullColumnKept ==
    [][job'.last.op \in {"insert_runtable", "insert_file_manager"} =>
        \A x \in db.rpd :
            \E y \in db'.rpd :
                /\ y.run_data_id = x.run_data_id
                /\ \A f \in RpdFieldNames : x[f] # Null => y[f] = x[f]]_vars


(* ------------- boundaries from narrative entries (logbook.py 96-119) --- *)
\* the text holds "run number" and "running"
HasBothPhrases(content) ==
    /\ \E i \in 1..(Len(content) - 1) : content[i] = "run" /\ content[i + 1] = "number"
    /\ \E i \in 1..Len(content) : content[i] = "running"

\* the token that follows the word "number" before the first colon, "" if
\* there is none
TokenAfterNumber(content) ==
    LET parts == BeforeColon(content)
        at == {i \in 1..(Len(parts) - 1) : parts[i] = "number"}
    IN  IF at = {} THEN ""
        ELSE parts[(CHOOSE i \in at : \A j \in at : i <= j) + 1]

Narrative(entry) == entry.run_num = Null /\ HasBothPhrases(entry.content)
Malformed(entry) == Narrative(entry) /\ IntOf(TokenAfterNumber(entry.content)) = Null
NotMalformed(entry) == ~Malformed(entry)

\* no other entry of the list has the timestamp of the i-th
AloneAtItsTime(raw, i) ==
    \A j \in 1..Len(raw) : j # i => raw[j].insert_time # raw[i].insert_time

\* C37: an entry without explicit run number whose text holds both
\* "run number" and "running" adds the boundary (its timestamp -> the
\* integer token after "number" before the first colon); when the token is
\* missing or not an integer no boundary is added for that timestamp and
\* the boundaries are those of the list without that entry.
C37_NarrativeBoundaries ==
    lg.done =>
        LET sorted_entries == SortedEntries(lg.raw)
            run_boundaries == IdentifyRunBoundaries(sorted_entries)
        IN /\ \A i \in 1..Len(lg.raw) :
                (Narrative(lg.raw[i]) /\ AloneAtItsTime(lg.raw, i)) =>
                    IF Malformed(lg.raw[i])
                    THEN lg.raw[i].insert_time \notin DOMAIN run_boundaries
                    ELSE DictGet(run_boundaries, lg.raw[i].insert_time)
                            = IntOf(TokenAfterNumber(lg.raw[i].content))
           /\ run_boundaries
                = IdentifyRunBoundaries(SelectSeq(sorted_entries, NotMalformed))

\* the response held an announcement of run 2, one whose number is not a
\* number and one whose number comes after the colon, each at a time of its
\* own, and a later note: only the first set a boundary, and the note got
\* run 2
C37_Witness ==
    /\ lg.done
    /\ Len(lg.raw) = MaxEntries
    /\ \A i \in 1..Len(lg.raw) : lg.raw[i].run_num = Null /\ AloneAtItsTime(lg.raw, i)
    /\ \E i, j, k, n \in 1..Len(lg.raw) :
        /\ lg.raw[i].content = <<"run", "number", "2", ":", "running">>
        /\ lg.raw[j].content = <<"run", "number", "x", ":", "running">>
        /\ lg.raw[k].content = <<"daq", ":", "run", "number", "2", "running">>
        /\ lg.raw[n].content = <<"beam", "lost">>
        /\ lg.raw[i].insert_time < lg.raw[j].insert_time
        /\ lg.raw[j].insert_time < lg.raw[k].insert_time
        /\ lg.raw[k].insert_time < lg.raw[n].insert_time
        /\ DOMAIN IdentifyRunBoundaries(SortedEntries(lg.raw)) = {lg.raw[i].insert_time}
        /\ \E o \in 1..Len(lg.out) :
              lg.out[o].log_id = lg.raw[n].id /\ lg.out[o].run_number = 2



(* ------------- the commands that write a store (cli.py 71-142, --------- *)
(* ------------- 316-387, 470-540) over one database directory ----------- *)
\* writes a command makes while it has the store open
MaxCommandWrites == 2

\* the commands of cli.py that open a Database and write to it
WritingCommands == {"update", "retry", "fetch"}

\* sq.lock      holder of the flock on <db_dir>/.elogfetch.lock
\* sq.command   per process: the command it runs
\* sq.pc        per process: its position in the command
\* sq.store     per process: "none", "open" or "closed" (its Database handle)
\* sq.written   per process: insert calls made through the handle
InitCommands ==
    /\ LockOff
    /\ PipeOff
    /\ \E c \in [Actors -> WritingCommands] :
          sq = [lock |-> NoActor,
                command |-> c,
                pc |-> [p \in Actors |-> "start"],
                store |-> [p \in Actors |-> "none"],
                written |-> [p \in Actors |-> 0]]
    /\ db = <<>>
    /\ job = <<>>
    /\ lg = <<>>
    /\ fd = <<>>

\* cli.py 127-131 (update), 525-529 (retry): with acquire_lock(lock_path):
\* the lock is granted and _do_update is entered
CoAcquire(p) ==
    /\ sq.command[p] \in {"update", "retry"}
    /\ sq.pc[p] = "start"
    /\ FlockGranted(sq.lock, p)
    /\ sq' = [sq EXCEPT !.lock = p, !.pc[p] = "locked"]
    /\ UNCHANGED <<lockvars, pipevars, db, job, lg, fd>>

\* cli.py 132-134, 530-532: LockError: logged, sys.exit(1)
CoLockError(p) ==
    /\ sq.command[p] \in {"update", "retry"}
    /\ sq.pc[p] = "start"
    /\ ~FlockGranted(sq.lock, p)
    /\ sq' = [sq EXCEPT !.pc[p] = "exited"]
    /\ UNCHANGED <<lockvars, pipevars, db, job, lg, fd>>

\* cli.py 190, 254-256: the writer thread, started inside the lock's scope,
\* opens the store
CoWriterOpen(p) ==
    /\ sq.command[p] \in {"update", "retry"}
    /\ sq.pc[p] \in {"locked", "left_lock"}
    /\ sq.store[p] = "none"
    /\ sq' = [sq EXCEPT !.store[p] = "open"]
    /\ UNCHANGED <<lockvars, pipevars, db, job, lg, fd>>

\* cli.py 218-230: the writer thread writes one record
CoWriterWrite(p) ==
    /\ sq.command[p] \in {"update", "retry"}
    /\ sq.pc[p] \in {"locked", "left_lock"}
    /\ sq.store[p] = "open"
    /\ sq.written[p] < MaxCommandWrites
    /\ sq' = [sq EXCEPT !.written[p] = @ + 1]
    /\ UNCHANGED <<lockvars, pipevars, db, job, lg, fd>>

\* cli.py 247-252: the writer thread's finally: db.close()
CoWriterClose(p) ==
    /\ sq.command[p] \in {"update", "retry"}
    /\ sq.pc[p] \in {"locked", "left_lock"}
    /\ sq.store[p] = "open"
    /\ sq' = [sq EXCEPT !.store[p] = "closed"]
    /\ UNCHANGED <<lockvars, pipevars, db, job, lg, fd>>

\* cli.py 297-313, 130-131: writer.join(timeout=300) returns because the
\* writer ended; _do_update returns and the with-statement releases the lock
CoJoin(p) ==
    /\ sq.pc[p] = "locked"
    /\ sq.store[p] = "closed"
    /\ sq' = [sq EXCEPT !.lock = ReleaseOnExit(@, p, TRUE, "none"),
                        !.pc[p] = "exited"]
    /\ UNCHANGED <<lockvars, pipevars, db, job, lg, fd>>

\* cli.py 297-313, 130-131: writer.join(timeout=300) returns after 300 s
\* with the writer still running; the result of the join is not looked at,
\* _do_update returns and the with-statement releases the lock
CoJoinTimeout(p) ==
    /\ sq.pc[p] = "locked"
    /\ sq.store[p] # "closed"
    /\ sq' = [sq EXCEPT !.lock = ReleaseOnExit(@, p, TRUE, "none"),
                        !.pc[p] = "left_lock"]
    /\ UNCHANGED <<lockvars, pipevars, db, job, lg, fd>>

\* cli.py 254: the writer is a daemon thread: it ends with the process
CoExit(p) ==
    /\ sq.pc[p] = "left_lock"
    /\ sq' = [sq EXCEPT !.pc[p] = "exited",
                        !.store[p] = IF @ = "open" THEN "closed" ELSE @]
    /\ UNCHANGED <<lockvars, pipevars, db, job, lg, fd>>

\* cli.py 337-346: fetch: find_latest_database or generate_db_name, then
\* db = Database(db_path); acquire_lock is not called
CoFetchOpen(p) ==
    /\ sq.command[p] = "fetch"
    /\ sq.pc[p] = "start"
    /\ sq' = [sq EXCEPT !.pc[p] = "fetching", !.store[p] = "open"]
    /\ UNCHANGED <<lockvars, pipevars, db, job, lg, fd>>

\* cli.py 348-377: fetch: one db.insert_* call (each commits)
CoFetchWrite(p) ==
    /\ sq.command[p] = "fetch"
    /\ sq.pc[p] = "fetching"
    /\ sq.written[p] < MaxCommandWrites
    /\ sq' = [sq EXCEPT !.written[p] = @ + 1]
    /\ UNCHANGED <<lockvars, pipevars, db, job, lg, fd>>

\* cli.py 379-380: fetch: db.close()
CoFetchClose(p) ==
    /\ sq.command[p] = "fetch"
    /\ sq.pc[p] = "fetching"
    /\ sq' = [sq EXCEPT !.pc[p] = "exited", !.store[p] = "closed"]
    /\ UNCHANGED <<lockvars, pipevars, db, job, lg, fd>>

NextCommands ==
    \/ \E p \in Actors : CoAcquire(p)
    \/ \E p \in Actors : CoLockError(p)
    \/ \E p \in Actors : CoWriterOpen(p)
    \/ \E p \in Actors : CoWriterWrite(p)
    \/ \E p \in Actors : CoWriterClose(p)
    \/ \E p \in Actors : CoJoin(p)
    \/ \E p \in Actors : CoJoinTimeout(p)
    \/ \E p \in Actors : CoExit(p)
    \/ \E p \in Actors : CoFetchOpen(p)
    \/ \E p \in Actors : CoFetchWrite(p)
    \/ \E p \in Actors : CoFetchClose(p)

SpecCommands == InitCommands /\ [][NextCommands]_vars

\* C38: every command that writes to a store file (update, retry and the
\* single-experiment fetch) holds the directory lock while it has the store
\* open for writing.
C38_WritersHoldTheLock ==
    \A p \in Actors : sq.store[p] = "open" => sq.lock = p



(* ------------- the base of an incremental run (cli.py 159-177) --------- *)
\* C39: an incremental run never changes its base snapshot: the run writes
\* to a newly named artifact that is a different file from the base, the
\* copy is complete when the writer opens it, and the base holds after the
\* run what it held before, for every start time, the clock minute in
\* which the base was created included.
C39_BaseSnapshotUntouched ==
    (fd.mode = "AUTO" /\ fd.base # NoPath) =>
        /\ fd.path # fd.base
        /\ ~fd.copy_error
        /\ RowsOfFile(fd.files, fd.base) = fd.opened_rows

\* the same for the runs whose generated name differs from the base's
C39_DistinctTargetKeepsBase ==
    (fd.mode = "AUTO" /\ fd.base # NoPath /\ fd.path # fd.base) =>
        /\ ~fd.copy_error
        /\ RowsOfFile(fd.files, fd.base) = fd.opened_rows



(* ------------- the failure list over several runs in one directory ----- *)
(* ------------- (cli.py 302-313, 493-529) ------------------------------- *)
\* update and retry commands run one after the other in the directory
MaxDirRuns == 3

\* failed_experiments.json is not there
NoFailureFile == [exists |-> FALSE, entries |-> <<>>]

\* cli.py 307-311: "if failed_experiments:" the list is dumped to
\* <db_dir>/failed_experiments.json (open(..., "w") replaces the content);
\* otherwise the file is neither written nor removed
WriteFailureList(file, failed) ==
    IF failed # <<>> THEN [exists |-> TRUE, entries |-> failed] ELSE file

\* cli.py 208-216, 232-239: the entries the writer appends for the
\* experiments of the list that failed, in list order
FailedEntries(exps, failing) ==
    LET f == SelectSeq(exps, LAMBDA e : e \in failing) IN
    [i \in 1..Len(f) |-> [experiment_id |-> f[i], error |-> "error"]]

\* lg.file         failed_experiments.json of the directory
\* lg.pc           "idle" or "running" (inside _do_update)
\* lg.experiments  the list handed to _do_update
\* lg.completed    runs of _do_update that returned normally
\* lg.last_failed  identifiers that failed in the most recent of them
\* lg.started      commands started
\* lg.exit_code    exit status of the command run last
InitRuns ==
    /\ LockOff
    /\ PipeOff
    /\ sq = <<>>
    /\ db = <<>>
    /\ job = <<>>
    /\ fd = <<>>
    /\ lg = [file |-> NoFailureFile, pc |-> "idle", experiments |-> <<>>,
             completed |-> 0, last_failed |-> {}, started |-> 0, exit_code |-> 0]

\* cli.py 109-131: update: the experiment list comes from the service and
\* _do_update is entered
RnUpdate ==
    /\ lg.pc = "idle"
    /\ lg.started < MaxDirRuns
    /\ \E n \in 1..MaxExps :
          lg' = [lg EXCEPT !.pc = "running", !.experiments = [i \in 1..n |-> i],
                           !.started = @ + 1, !.exit_code = 0]
    /\ UNCHANGED <<lockvars, pipevars, sq, db, job, fd>>

\* cli.py 493-529: retry: the list is read from failed_experiments.json and
\* _do_update is entered with it; an empty list ends the command (513-515)
RnRetry ==
    /\ lg.pc = "idle"
    /\ lg.started < MaxDirRuns
    /\ lg.file.exists
    /\ lg' = [lg EXCEPT !.pc = IF RetryExperiments(lg.file.entries) # <<>>
                               THEN "running" ELSE "idle",
                        !.experiments = RetryExperiments(lg.file.entries),
                        !.started = @ + 1, !.exit_code = 0]
    /\ UNCHANGED <<lockvars, pipevars, sq, db, job, fd>>

\* cli.py 499-501: retry: the file is not there: sys.exit(1)
RnRetryNoFile ==
    /\ lg.pc = "idle"
    /\ lg.started < MaxDirRuns
    /\ ~lg.file.exists
    /\ lg' = [lg EXCEPT !.started = @ + 1, !.exit_code = 1]
    /\ UNCHANGED <<lockvars, pipevars, sq, db, job, fd>>

\* cli.py 302-313: _do_update returns normally: some of the experiments
\* failed, the others succeeded; the summary is logged and the failure list
\* written if it is not empty
RnComplete ==
    /\ lg.pc = "running"
    /\ \E failing \in SUBSET {lg.experiments[i] : i \in 1..Len(lg.experiments)} :
          lg' = [lg EXCEPT !.pc = "idle",
                           !.file = WriteFailureList(@, FailedEntries(lg.experiments, failing)),
                           !.completed = @ + 1,
                           !.last_failed = failing]
    /\ UNCHANGED <<lockvars, pipevars, sq, db, job, fd>>

\* cli.py 299-300: the writer's error is re-raised: nothing is written
RnRaise ==
    /\ lg.pc = "running"
    /\ lg' = [lg EXCEPT !.pc = "idle", !.exit_code = 1]
    /\ UNCHANGED <<lockvars, pipevars, sq, db, job, fd>>

NextRuns ==
    \/ RnUpdate
    \/ RnRetry
    \/ RnRetryNoFile
    \/ RnComplete
    \/ RnRaise

SpecRuns == InitRuns /\ [][NextRuns]_vars

\* the identifiers a retry started now would hand to _do_update
RetryWouldDrive ==
    IF lg.file.exists
    THEN {RetryExperiments(lg.file.entries)[i] : i \in 1..Len(lg.file.entries)}
    ELSE {}

\* C40: the failure list reflects the most recent run in the directory:
\* after any run has completed, a run or retry in which every experiment
\* succeeded included, the identifiers a following retry would drive are
\* exactly those that failed in the most recent run, none when nothing
\* failed.
C40_FailureListIsOfLastRun ==
    (lg.pc = "idle" /\ lg.completed > 0) => RetryWouldDrive = lg.last_failed

\* the same for the runs in which something failed
C40_FailureListAfterFailingRun ==
    (lg.pc = "idle" /\ lg.completed > 0 /\ lg.last_failed # {})
        => RetryWouldDrive = lg.last_failed

====
